---------------------------- MODULE Spec2Model ----------------------------
(***************************************************************************)
(* Pack codec of src/common/type/pack.c: the buffer-mode writer            *)
(* (pckWriteNewBuf) produces a pack, the buffer-mode reader                *)
(* (pckReadNewBuf) then reads it.  Every C function is an operator on a    *)
(* writer record or reader record; the actions apply the public functions  *)
(* with inputs drawn from small sets.                                      *)
(*                                                                         *)
(* Numbers: TLC integers are 32-bit signed.  Ids and values are modelled   *)
(* exactly as naturals; the terminator mark 0xFFFFFFFF is represented by   *)
(* UINT_MAX, the largest TLC integer.  The base-128 decoder reports the    *)
(* error "range" instead of a value that has a non-zero digit above bit 20,*)
(* so every id the reader computes stays far below UINT_MAX - 1 and every  *)
(* comparison agrees with the 32-bit one.  SpecVarint models a uint64_t at  *)
(* full width as its ten base-128 digits.                                  *)
(*                                                                         *)
(* Specifications: Spec (any reads of a pack), SpecRT (the reader repeats  *)
(* the writer's calls), SpecTag (tags with large ids), SpecVarint (base-128 *)
(* integers and raw input), SpecSink (the writer with a sink, pckWriteNew), *)
(* SpecSrc (the reader with a source), SpecFill (pckReadBuffer), SpecPos   *)
(* (writes with id 0), SpecId (id deltas), SpecLoop (the loops of the      *)
(* reader step by step on raw input).                                      *)
(***************************************************************************)
EXTENDS Integers, Sequences, FiniteSets, TLC

(***************************************************************************)
(* Bounds of the model                                                     *)
(***************************************************************************)
\* Number of write operations before pckWriteEnd
MaxOps == 2
\* Largest explicit field id passed by a caller (0 = next id)
MaxId == 2
\* Largest length of a string or binary value
MaxLen == 1
\* The largest id, and the number of fields, of the packs of SpecTag
MaxTagId == 17
MaxTagOps == 1
\* The largest number of bytes with the high bit set in the raw input of SpecVarint
MaxRaw == 11
\* ioBufferSize(): the size of the buffer of a writer with a sink, and the
\* largest length of a string written to one
IoBufferSize == 2
MaxSinkLen == 3

(***************************************************************************)
(* Constants of the program                                                *)
(***************************************************************************)
PACK_UINT64_SIZE_MAX == 10

pckTypeUnknown == 0
pckTypeArray == 1
pckTypeBin == 2
pckTypeBool == 3
pckTypeI32 == 4
pckTypeI64 == 5
pckTypeObj == 6
pckTypePtr == 7
pckTypeStr == 8
pckTypeTime == 9
pckTypeU32 == 10
pckTypeU64 == 11

\* 0xFFFFFFFF, the id that marks a parsed container terminator
UINT_MAX == 2147483647

\* packTypeData[]: the format flags of each type
packTypeData ==
    [t \in 0..11 |->
        [valueSingleBit |-> t \in {pckTypeBin, pckTypeBool, pckTypeStr},
         valueMultiBit |-> t \in {pckTypeI32, pckTypeI64, pckTypePtr, pckTypeTime,
                                  pckTypeU32, pckTypeU64},
         size |-> t \in {pckTypeBin, pckTypeStr}]]

\* struct PackTagStack, as added by lstAdd(&(PackTagStack){.type = type})
PackTagStack(type) == [type |-> type, idLast |-> 0, nullTotal |-> 0]

\* A NULL Buffer * / String * / void *
NullValue == <<-1>>

(***************************************************************************)
(* Inputs                                                                  *)
(***************************************************************************)
Ids == 0..MaxId
U32Values == {1, 7}
U32Defaults == {7}
\* The empty string and a string of the largest length
StrValues == {<<>>, [i \in 1..MaxLen |-> 72]}
StrDefaults == {[i \in 1..MaxLen |-> 72]}
\* The empty buffer and a buffer of the largest length
BinShortLong == {<<>>, [i \in 1..MaxLen |-> 0]}
BinValues == {NullValue} \cup BinShortLong

(***************************************************************************)
(* Writer                                                                  *)
(***************************************************************************)
\* pckWriteNewBuf(): empty buffer, the implicit outer object on the stack, no
\* sink (write = NULL).  bufSize is the size of the buffer, which matters with
\* a sink only: without one the buffer is grown as needed.
pckWriteNewBuf ==
    [buffer |-> <<>>, tagStack |-> <<PackTagStack(pckTypeObj)>>, write |-> NullValue,
     bufSize |-> 0]

\* pckWriteNew(): write is what the sink has been given so far, the buffer is
\* bufNew(ioBufferSize())
pckWriteNew ==
    [buffer |-> <<>>, tagStack |-> <<PackTagStack(pckTypeObj)>>, write |-> <<>>,
     bufSize |-> IoBufferSize]

\* ioWrite(): the sink is given the bytes, after those it was given before
ioWrite(write, buffer) == write \o buffer

\* bufRemains(this->buffer) >= bufUsed(buffer)
WriteFits(this, bytes) == this.bufSize - Len(this.buffer) >= Len(bytes)

\* this->tagStackTop of the writer (always the last element until pckWriteEnd)
WTop(this) == this.tagStack[Len(this.tagStack)]

\* Mutant of pckWriteBuffer: bytes that do not fit go to the sink before the
\* bytes in the buffer
pckWriteBufferAhead(this, bytes) ==
    IF this.write = NullValue \/ WriteFits(this, bytes)
        THEN [this EXCEPT !.buffer = @ \o bytes]
        ELSE [this EXCEPT !.write = ioWrite(@, bytes)]

\* pckWriteBuffer().  Without a sink: grow if needed, then bufCat.  With a sink:
\* bufCat if the bytes fit, else write the buffer to the sink if it is not
\* empty, then bufCat if the bytes fit now, else write them to the sink.
pckWriteBuffer(this, bytes) ==
    LET Rest(flushed) ==
            IF WriteFits(flushed, bytes)
                THEN [flushed EXCEPT !.buffer = @ \o bytes]
                ELSE [flushed EXCEPT !.write = ioWrite(@, bytes)]
    IN  IF this.write = NullValue \/ WriteFits(this, bytes)
            THEN [this EXCEPT !.buffer = @ \o bytes]
            ELSE Rest(IF Len(this.buffer) > 0
                        THEN [this EXCEPT !.write = ioWrite(@, this.buffer), !.buffer = <<>>]
                        ELSE this)

\* The bytes pckWriteUInt64Internal() puts in its local buffer
RECURSIVE Base128(_)
Base128(value) ==
    IF value >= 128
        THEN <<(value % 128) + 128>> \o Base128(value \div 128)
        ELSE <<value>>

\* Mutant of pckWriteUInt64Internal: a value that is not 0 always takes two bytes
pckWriteUInt64InternalPad(this, value) ==
    pckWriteBuffer(this, IF value = 0 THEN <<0>> ELSE <<(value % 128) + 128, value \div 128>>)

pckWriteUInt64Internal(this, value) == pckWriteBuffer(this, Base128(value))

\* A uint64_t of full width, as its ten base-128 digits, the lowest first; the
\* tenth digit holds bit 63 alone
U64Zero == [k \in 1..PACK_UINT64_SIZE_MAX |-> 0]

\* value >> 7
U64Shift7(value) == Tail(value) \o <<0>>

\* The bytes pckWriteUInt64Internal() puts in its local buffer for a value of
\* full width: while (value >= 0x80) { value | 0x80; value >>= 7 }, then value
RECURSIVE Base128Wide(_)
Base128Wide(value) ==
    IF \E k \in 2..Len(value) : value[k] # 0
        THEN <<value[1] + 128>> \o Base128Wide(U64Shift7(value))
        ELSE <<value[1]>>

\* Mutant of pckWriteUInt64InternalWide: no byte has the high bit set
pckWriteUInt64InternalFlat(this, value) ==
    pckWriteBuffer(this, [k \in 1..Len(Base128Wide(value)) |-> value[k]])

pckWriteUInt64InternalWide(this, value) == pckWriteBuffer(this, Base128Wide(value))

\* The id pckWriteTag() gives the field
WriteTagId(this, id) ==
    IF id = 0 THEN WTop(this).idLast + WTop(this).nullTotal + 1 ELSE id

\* Mutant of WriteTagAssert: any id passes
WriteTagAssertAny(this, id) == id >= 0

\* ASSERT(id > this->tagStackTop->idLast) of pckWriteTag()
WriteTagAssert(this, id) == id = 0 \/ id > WTop(this).idLast

\* Mutant of TagBits: a multi-bit value never goes in the tag
TagBitsLarge(type, tagId, value) ==
    IF packTypeData[type].valueMultiBit
        THEN [tag |-> type * 16 + 8 + (tagId % 4) + (IF tagId \div 4 > 0 THEN 4 ELSE 0),
              tagId |-> tagId \div 4, value |-> value]
    ELSE IF packTypeData[type].valueSingleBit
        THEN [tag |-> type * 16 + (value % 2) * 8 + (tagId % 4)
                        + (IF tagId \div 4 > 0 THEN 4 ELSE 0),
              tagId |-> tagId \div 4, value |-> value \div 2]
        ELSE [tag |-> type * 16 + (tagId % 8) + (IF tagId \div 8 > 0 THEN 8 ELSE 0),
              tagId |-> tagId \div 8, value |-> value]

\* The tag byte and what is left of tagId and value after the tag took its bits
TagBits(type, tagId, value) ==
    IF packTypeData[type].valueMultiBit
        THEN IF value < 2
                THEN [tag |-> type * 16 + (value % 2) * 4 + (tagId % 2)
                                + (IF tagId \div 2 > 0 THEN 2 ELSE 0),
                      tagId |-> tagId \div 2, value |-> value \div 2]
                ELSE [tag |-> type * 16 + 8 + (tagId % 4)
                                + (IF tagId \div 4 > 0 THEN 4 ELSE 0),
                      tagId |-> tagId \div 4, value |-> value]
    ELSE IF packTypeData[type].valueSingleBit
        THEN [tag |-> type * 16 + (value % 2) * 8 + (tagId % 4)
                        + (IF tagId \div 4 > 0 THEN 4 ELSE 0),
              tagId |-> tagId \div 4, value |-> value \div 2]
        ELSE [tag |-> type * 16 + (tagId % 8) + (IF tagId \div 8 > 0 THEN 8 ELSE 0),
              tagId |-> tagId \div 8, value |-> value]

\* pckWriteTag(), given that its assertion holds
pckWriteTag(this, type, id, value) ==
    LET idNew == WriteTagId(this, id)
        top == Len(this.tagStack)
        bits == TagBits(type, idNew - WTop(this).idLast - 1, value)
        w1 == pckWriteBuffer(this, <<bits.tag % 256>>)
        w2 == IF bits.tagId > 0 THEN pckWriteUInt64Internal(w1, bits.tagId) ELSE w1
        w3 == IF bits.value > 0 THEN pckWriteUInt64Internal(w2, bits.value) ELSE w2
    IN  [w3 EXCEPT !.tagStack[top].nullTotal = 0, !.tagStack[top].idLast = idNew]

\* The condition of pckWriteDefaultNull(): TRUE when the field is elided
WriteIsNull(defaultNull, defaultEqual) == defaultNull /\ defaultEqual

\* Mutant of pckWriteDefaultNull: an elided field counts as written
pckWriteDefaultNullIdLast(this, defaultNull, defaultEqual) ==
    IF WriteIsNull(defaultNull, defaultEqual)
        THEN [this EXCEPT !.tagStack[Len(this.tagStack)].idLast = @ + 1]
        ELSE this

\* pckWriteDefaultNull(): an elided field is counted in nullTotal
pckWriteDefaultNull(this, defaultNull, defaultEqual) ==
    IF WriteIsNull(defaultNull, defaultEqual)
        THEN [this EXCEPT !.tagStack[Len(this.tagStack)].nullTotal = @ + 1]
        ELSE this

\* Mutant of pckWriteNull: the NULL is not counted
pckWriteNullNone(this) == this

\* pckWriteNull()
pckWriteNull(this) == [this EXCEPT !.tagStack[Len(this.tagStack)].nullTotal = @ + 1]

\* cvtInt32ToZigZag(): (value << 1) ^ (value >> 31) as an unsigned number
cvtInt32ToZigZag(value) == IF value >= 0 THEN 2 * value ELSE -2 * value - 1

\* pckWriteI32()
pckWriteI32(this, value, id, defaultNull, defaultValue) ==
    IF WriteIsNull(defaultNull, value = defaultValue)
        THEN pckWriteDefaultNull(this, defaultNull, value = defaultValue)
        ELSE pckWriteTag(this, pckTypeI32, id, cvtInt32ToZigZag(value))

pckWriteU32(this, value, id, defaultNull, defaultValue) ==
    IF WriteIsNull(defaultNull, value = defaultValue)
        THEN pckWriteDefaultNull(this, defaultNull, value = defaultValue)
        ELSE pckWriteTag(this, pckTypeU32, id, value)

\* Mutant of WriteSized: the size is written for an empty value too
WriteSizedAlways(this, type, value, id) ==
    pckWriteBuffer(pckWriteUInt64Internal(pckWriteTag(this, type, id, 1), Len(value)), value)

\* pckWriteStr() and pckWriteBin(): tag, then size and bytes when size > 0
WriteSized(this, type, value, id) ==
    LET w1 == pckWriteTag(this, type, id, IF Len(value) > 0 THEN 1 ELSE 0)
    IN  IF Len(value) > 0
            THEN pckWriteBuffer(pckWriteUInt64Internal(w1, Len(value)), value)
            ELSE w1

pckWriteStr(this, value, id, defaultNull, defaultValue) ==
    IF WriteIsNull(defaultNull, value = defaultValue)
        THEN pckWriteDefaultNull(this, defaultNull, value = defaultValue)
        ELSE WriteSized(this, pckTypeStr, value, id)

pckWriteBin(this, value, id, defaultNull) ==
    IF WriteIsNull(defaultNull, value = NullValue)
        THEN pckWriteDefaultNull(this, defaultNull, value = NullValue)
        ELSE WriteSized(this, pckTypeBin, value, id)

\* pckWriteArrayBegin() / pckWriteObjBegin()
WriteBegin(this, type, id) ==
    [pckWriteTag(this, type, id, 0) EXCEPT !.tagStack = Append(@, PackTagStack(type))]

\* Mutant of WriteContainerEnd: the container is left without a terminator
WriteContainerEndNoTerm(this) ==
    [this EXCEPT !.tagStack = SubSeq(@, 1, Len(@) - 1)]

\* pckWriteArrayEnd() / pckWriteObjEnd(), given that their assertions hold
WriteContainerEnd(this) ==
    [pckWriteUInt64Internal(this, 0) EXCEPT
        !.tagStack = SubSeq(@, 1, Len(@) - 1)]

\* pckWriteEnd(): the last terminator; tagStackTop = NULL; with a sink the
\* buffer is written to it if it is not empty (bufUsed is left as it is)
pckWriteEnd(this) ==
    LET Flush(t) ==
            IF t.write # NullValue /\ Len(t.buffer) > 0
                THEN [t EXCEPT !.write = ioWrite(@, t.buffer)]
                ELSE t
    IN  Flush(pckWriteUInt64Internal(this, 0))


(***************************************************************************)
(* Reader                                                                  *)
(***************************************************************************)
\* pckReadNewBuf(): the whole pack is in the buffer, nothing parsed, the
\* implicit outer object on the stack, no source (read = NULL).  tagStack is the element memory of the
\* list, size is lstSize(tagStack) and top is the element tagStackTop points
\* to (0 = NULL).
pckReadNewBuf(buffer) ==
    [buffer |-> buffer, bufferPos |-> 0, bufferMax |-> Len(buffer),
     tagNextId |-> 0, tagNextType |-> 0, tagNextValue |-> 0,
     tagStack |-> <<PackTagStack(pckTypeObj)>>, size |-> 1, top |-> 1,
     read |-> NullValue, readTotal |-> 0]

\* pckReadNew(): the pack is read from a source into a buffer of
\* ioBufferSize() bytes.  read is the source: the bytes it has still to give;
\* readTotal is, as history, the number of bytes it has given.
pckReadNew(pack) ==
    [buffer |-> <<>>, bufferPos |-> 0, bufferMax |-> 0,
     tagNextId |-> 0, tagNextType |-> 0, tagNextValue |-> 0,
     tagStack |-> <<PackTagStack(pckTypeObj)>>, size |-> 1, top |-> 1,
     read |-> pack, readTotal |-> 0]

\* A function's outcome: the reader it leaves, the error it threw ("" = none)
\* and what it returned
Ret(this, err, num, bytes, flag, id) ==
    [r |-> this, err |-> err, num |-> num, bytes |-> bytes, flag |-> flag, id |-> id]
Value(this, num) == Ret(this, "", num, <<>>, FALSE, 0)
Throw(this, err) == Ret(this, err, 0, <<>>, FALSE, 0)

\* this->tagStackTop->idLast
RTop(this) == this.tagStack[this.top]

\* Mutant of ReadLimit: the whole buffer is filled
ReadLimitFull(size) == IoBufferSize

\* bufLimitSet() of pckReadBuffer(): size, or the size of the buffer if smaller
ReadLimit(size) == IF size < IoBufferSize THEN size ELSE IoBufferSize

\* ioReadSmall(): the source gives the next bytes it has up to the limit of the
\* buffer, fewer only at its end
ioReadSmall(src, limit) == SubSeq(src, 1, IF limit < Len(src) THEN limit ELSE Len(src))

\* Mutant of pckReadBuffer: fewer bytes than asked for are an error
pckReadBufferStrict(this, size) ==
    IF this.bufferMax - this.bufferPos < size THEN Throw(this, "unexpected EOF")
    ELSE Value(this, size)

\* Mutant of pckReadBuffer: the end of the input is not noticed
pckReadBufferNoEof(this, size) == Value(this, size)

\* pckReadBuffer(): how many of the size bytes asked for are in the buffer, or
\* "unexpected EOF" when there is none.  With a source the buffer is filled
\* again when it has fewer than size bytes: ASSERT(remaining == 0) (a failed
\* assertion is the error "assert"), then the bytes read are the buffer.
pckReadBuffer(this, size) ==
    LET remaining == this.bufferMax - this.bufferPos
        Rest(t) ==
            IF t.bufferMax - t.bufferPos < 1
                THEN Throw(t, "unexpected EOF")
                ELSE Value(t, IF t.bufferMax - t.bufferPos < size
                                THEN t.bufferMax - t.bufferPos ELSE size)
        Fill(bytes) ==
            [this EXCEPT !.buffer = bytes, !.bufferPos = 0, !.bufferMax = Len(bytes),
                         !.read = SubSeq(@, Len(bytes) + 1, Len(@)),
                         !.readTotal = @ + Len(bytes)]
    IN  IF remaining < size
            THEN IF this.read # NullValue
                    THEN IF remaining # 0 THEN Throw(this, "assert")
                         ELSE Rest(Fill(ioReadSmall(this.read, ReadLimit(size))))
                    ELSE Rest(this)
            ELSE Value(this, size)

\* The for loop of pckReadUInt64Internal() from bufferIdx on
RECURSIVE ReadUInt64Loop(_, _, _)
ReadUInt64Loop(this, bufferIdx, result) ==
    IF bufferIdx >= PACK_UINT64_SIZE_MAX
        THEN Throw(this, "unterminated base-128 integer")
        ELSE LET avail == pckReadBuffer(this, 1)
                 byte == avail.r.buffer[avail.r.bufferPos + 1]
                 next == [avail.r EXCEPT !.bufferPos = @ + 1]
             IN  IF avail.err # "" THEN avail
                 ELSE IF byte % 128 # 0 /\ bufferIdx >= 3 THEN Throw(avail.r, "range")
                 ELSE LET sum == IF byte % 128 = 0 THEN result
                                 ELSE result + (byte % 128) * 2 ^ (7 * bufferIdx)
                      IN  IF byte < 128 THEN Value(next, sum)
                          ELSE ReadUInt64Loop(next, bufferIdx + 1, sum)

pckReadUInt64Internal(this) == ReadUInt64Loop(this, 0, 0)

\* The for loop of pckReadUInt64Internal() on a result of full width: the digit
\* of byte bufferIdx is (byte & 0x7f) << (7 * bufferIdx), of which the tenth
\* keeps its lowest bit only; bytes = the digits of the result
RECURSIVE ReadUInt64LoopWide(_, _, _)
ReadUInt64LoopWide(this, bufferIdx, result) ==
    IF bufferIdx >= PACK_UINT64_SIZE_MAX
        THEN Throw(this, "unterminated base-128 integer")
        ELSE LET Digit(byte) ==
                     IF bufferIdx = PACK_UINT64_SIZE_MAX - 1 THEN byte % 2 ELSE byte % 128
                 Byte(t) == IF t.bufferPos < Len(t.buffer) THEN t.buffer[t.bufferPos + 1] ELSE 0
                 Step(avail, byte, next) ==
                     IF avail.err # "" THEN avail
                     ELSE IF byte < 128
                         THEN Ret(next, "", 0, [result EXCEPT ![bufferIdx + 1] = Digit(byte)],
                                  FALSE, 0)
                         ELSE ReadUInt64LoopWide(next, bufferIdx + 1,
                                                 [result EXCEPT ![bufferIdx + 1] = Digit(byte)])
                 Got(avail) == Step(avail, Byte(avail.r), [avail.r EXCEPT !.bufferPos = @ + 1])
             IN  Got(pckReadBuffer(this, 1))

pckReadUInt64InternalWide(this) == ReadUInt64LoopWide(this, 0, U64Zero)

\* The id bits of pckReadTagNext(): idBits low bits from the tag, the rest from
\* a base-128 integer when the more-ID-delta bit (value more) is set
ReadTagId(this, tag, idBits, more) ==
    LET low == [this EXCEPT !.tagNextId = tag % (2 ^ idBits)]
        More(high) ==
            IF high.err # "" THEN high
            ELSE Value([high.r EXCEPT !.tagNextId = @ + high.num * 2 ^ idBits], 0)
    IN  IF (tag \div more) % 2 = 1 THEN More(pckReadUInt64Internal(low)) ELSE Value(low, 0)

\* Mutant of ReadTagIdAbs: the id is counted from the start of the container
ReadTagIdAbsFirst(this) == [this EXCEPT !.tagNextId = @ + 1]

\* this->tagNextId += this->tagStackTop->idLast + 1
ReadTagIdAbs(this) == [this EXCEPT !.tagNextId = @ + RTop(this).idLast + 1]

\* The body of pckReadTagNext() with types = the entries packTypeData[] gives.
\* A type with no entry (a read past the end of the array) is not defined
\* ("undefined").
ReadTagNextIn(this, types) ==
    LET avail == pckReadBuffer(this, 1)
        tag == avail.r.buffer[avail.r.bufferPos + 1]
        r1 == [avail.r EXCEPT !.bufferPos = @ + 1]
        r2 == [r1 EXCEPT !.tagNextType = tag \div 16]
        \* the id is parsed (i), then the value is value
        Done(i, value) ==
            IF i.err # "" THEN i
            ELSE Ret(ReadTagIdAbs([i.r EXCEPT !.tagNextValue = value]), "", 0, <<>>, TRUE, 0)
        \* the id is parsed (i), the value follows as a base-128 integer (v)
        Multi(i, v) ==
            IF i.err # "" THEN i
            ELSE IF v.err # "" THEN v
            ELSE Ret(ReadTagIdAbs([v.r EXCEPT !.tagNextValue = v.num]), "", 0, <<>>, TRUE, 0)
        MultiId(i) == Multi(i, pckReadUInt64Internal(i.r))
    IN  IF avail.err # "" THEN avail
        ELSE IF tag = 0
            THEN Ret([r1 EXCEPT !.tagNextId = UINT_MAX], "", 0, <<>>, FALSE, 0)
        ELSE IF tag \div 16 \notin DOMAIN types THEN Throw(r2, "undefined")
        ELSE IF types[tag \div 16].valueMultiBit
            THEN IF (tag \div 8) % 2 = 1
                    THEN MultiId(ReadTagId(r2, tag, 2, 4))
                    ELSE Done(ReadTagId(r2, tag, 1, 2), (tag \div 4) % 2)
        ELSE IF types[tag \div 16].valueSingleBit
            THEN Done(ReadTagId(r2, tag, 2, 4), (tag \div 8) % 2)
        ELSE Done(ReadTagId(r2, tag, 3, 8), 0)

\* pckReadTagNext(): parse the next tag into the lookahead; flag = its result
pckReadTagNext(this) == ReadTagNextIn(this, packTypeData)

\* Does the next byte, taken as a tag, name a type packTypeData has no entry
\* for?  packTypeData[tag >> 4] then reads past the end of the array.
ReadTagNextOob(this) ==
    /\ this.bufferPos < this.bufferMax
    /\ this.buffer[this.bufferPos + 1] \div 16 \notin DOMAIN packTypeData

\* The loops of pckReadTag() (skip), pckReadStr() and pckReadBin() that take
\* sizeExpected bytes from the buffer; bytes = what was taken before
RECURSIVE ReadBytes(_, _, _)
ReadBytes(this, sizeExpected, bytes) ==
    IF sizeExpected = 0 THEN Ret(this, "", 0, bytes, FALSE, 0)
    ELSE LET sizeRead == pckReadBuffer(this, sizeExpected)
         IN  IF sizeRead.err # "" THEN sizeRead
             ELSE ReadBytes(
                    [sizeRead.r EXCEPT !.bufferPos = @ + sizeRead.num],
                    sizeExpected - sizeRead.num,
                    bytes \o SubSeq(sizeRead.r.buffer, sizeRead.r.bufferPos + 1,
                                    sizeRead.r.bufferPos + sizeRead.num))

\* Does pckReadTag() read size and data of the field it skips?
SkipHasData(this, type) == packTypeData[type].size /\ this.tagNextValue # 0

\* "Read data for the field being skipped" in pckReadTag()
ReadTagSkip(this, type) ==
    LET Data(sizeExpected) ==
            IF sizeExpected.err # "" THEN sizeExpected
            ELSE ReadBytes(sizeExpected.r, sizeExpected.num, <<>>)
    IN  IF SkipHasData(this, type) THEN Data(pckReadUInt64Internal(this))
        ELSE Value(this, 0)

\* this->tagStackTop->idLast = this->tagNextId; this->tagNextId = 0
ReadTagConsume(this) ==
    [this EXCEPT !.tagStack[this.top].idLast = this.tagNextId, !.tagNextId = 0]

\* Mutant of ReadTagTypeOk: any type is accepted
ReadTagTypeAny(this, type) == TRUE

\* The type check of pckReadTag() on an exact id match
ReadTagTypeOk(this, type) == this.tagNextType = type

\* The do ... while (1) loop of pckReadTag() for the id already made absolute
RECURSIVE ReadTagLoop(_, _, _, _)
ReadTagLoop(this, id, type, peek) ==
    LET \* the field is skipped: idLast = tagNextId, tagNextId = 0, and again
        Skipped(skip) ==
            IF skip.err # "" THEN Throw(skip.r, skip.err)
            ELSE ReadTagLoop(ReadTagConsume(skip.r), id, type, peek)
        \* the lookahead is there in r1
        Parsed(r1) ==
            IF id < r1.tagNextId
                THEN IF ~peek THEN Ret(r1, "does not exist", 0, <<>>, FALSE, id)
                     ELSE Ret(r1, "", r1.tagNextValue, <<>>, FALSE, id)
            ELSE IF id = r1.tagNextId
                THEN IF ~peek
                        THEN IF ~ReadTagTypeOk(r1, type)
                                THEN Ret(r1, "type", 0, <<>>, FALSE, id)
                                ELSE Ret(ReadTagConsume(r1), "", r1.tagNextValue, <<>>,
                                         FALSE, id)
                        ELSE Ret(r1, "", r1.tagNextValue, <<>>, FALSE, id)
            ELSE Skipped(ReadTagSkip(r1, type))
        TagNext(next) == IF next.err # "" THEN Throw(next.r, next.err) ELSE Parsed(next.r)
    IN  IF this.tagNextId = 0 THEN TagNext(pckReadTagNext(this)) ELSE Parsed(this)

\* Mutant of ReadTagAlready: the field read last may be read again
ReadTagAlreadyBelow(this, id) == id < RTop(this).idLast

\* *id <= this->tagStackTop->idLast of pckReadTag()
ReadTagAlready(this, id) == id <= RTop(this).idLast

\* pckReadTag(): num = the returned tagNextValue, id = *id on return
pckReadTag(this, id, type, peek) ==
    IF id = 0 THEN ReadTagLoop(this, RTop(this).idLast + 1, type, peek)
    ELSE IF ReadTagAlready(this, id) THEN Ret(this, "already read", 0, <<>>, FALSE, id)
    ELSE ReadTagLoop(this, id, type, peek)

\* pckReadNext()
pckReadNext(this) == pckReadTagNext(this)

\* Mutant of pckReadNullInternal: an absent id is marked as read
pckReadNullInternalMark(this, id) ==
    LET Tag(t) ==
            IF t.err # "" THEN t
            ELSE IF t.id < t.r.tagNextId
                THEN Ret([t.r EXCEPT !.tagStack[t.r.top].idLast = t.id], "", 0, <<>>,
                         TRUE, t.id)
                ELSE Ret(t.r, "", 0, <<>>, FALSE, t.id)
    IN  Tag(pckReadTag(this, id, pckTypeUnknown, TRUE))

\* pckReadNullInternal(): flag = *id < this->tagNextId
pckReadNullInternal(this, id) ==
    LET Tag(t) == IF t.err # "" THEN t
                  ELSE Ret(t.r, "", 0, <<>>, t.id < t.r.tagNextId, t.id)
    IN  Tag(pckReadTag(this, id, pckTypeUnknown, TRUE))

\* pckReadNull()
pckReadNull(this, id) == pckReadNullInternal(this, id)

\* Mutant of pckReadDefaultNull: a field taken as NULL empties the lookahead
pckReadDefaultNullDrop(this, defaultNull, id) ==
    LET Null(n) ==
            IF n.err # "" THEN n
            ELSE IF n.flag
                THEN Ret([n.r EXCEPT !.tagStack[n.r.top].idLast = n.id, !.tagNextId = 0],
                         "", 0, <<>>, TRUE, n.id)
                ELSE Ret(n.r, "", 0, <<>>, FALSE, n.id)
    IN  IF ~defaultNull THEN Ret(this, "", 0, <<>>, FALSE, id)
        ELSE Null(pckReadNullInternal(this, id))

\* Mutant of pckReadDefaultNull: with defaultNull every field is taken as NULL
pckReadDefaultNullAlways(this, defaultNull, id) ==
    LET Null(n) ==
            IF n.err # "" THEN n
            ELSE Ret([n.r EXCEPT !.tagStack[n.r.top].idLast = n.id], "", 0, <<>>, TRUE, n.id)
    IN  IF ~defaultNull THEN Ret(this, "", 0, <<>>, FALSE, id)
        ELSE Null(pckReadNullInternal(this, id))

\* Mutant of pckReadDefaultNull: no field is taken as NULL
pckReadDefaultNullNever(this, defaultNull, id) == Ret(this, "", 0, <<>>, FALSE, id)

\* pckReadDefaultNull(): flag = the field is NULL, id = *id on return
pckReadDefaultNull(this, defaultNull, id) ==
    LET Null(n) ==
            IF n.err # "" THEN n
            ELSE IF n.flag
                THEN Ret([n.r EXCEPT !.tagStack[n.r.top].idLast = n.id], "", 0, <<>>,
                         TRUE, n.id)
                ELSE n
    IN  IF ~defaultNull THEN Ret(this, "", 0, <<>>, FALSE, id)
        ELSE Null(pckReadNullInternal(this, id))

\* pckReadU32()
pckReadU32(this, id, defaultNull, defaultValue) ==
    LET Tag(t) == IF t.err # "" THEN t ELSE Value(t.r, t.num)
        Default(d) ==
            IF d.err # "" THEN d
            ELSE IF d.flag THEN Value(d.r, defaultValue)
            ELSE Tag(pckReadTag(d.r, d.id, pckTypeU32, FALSE))
    IN  Default(pckReadDefaultNull(this, defaultNull, id))

\* What pckReadStr() and pckReadBin() do after pckReadDefaultNull() said the
\* field is not NULL: the tag, then size and bytes when the value bit is set
ReadSized(this, type, id) ==
    LET Data(sizeExpected) ==
            IF sizeExpected.err # "" THEN sizeExpected
            ELSE ReadBytes(sizeExpected.r, sizeExpected.num, <<>>)
        Tag(t) ==
            IF t.err # "" THEN t
            ELSE IF t.num # 0 THEN Data(pckReadUInt64Internal(t.r))
            ELSE Ret(t.r, "", 0, <<>>, FALSE, 0)
    IN  Tag(pckReadTag(this, id, type, FALSE))

\* pckReadStr(): bytes = the string
pckReadStr(this, id, defaultNull, defaultValue) ==
    LET Default(d) ==
            IF d.err # "" THEN d
            ELSE IF d.flag THEN Ret(d.r, "", 0, defaultValue, FALSE, 0)
            ELSE ReadSized(d.r, pckTypeStr, d.id)
    IN  Default(pckReadDefaultNull(this, defaultNull, id))

\* pckReadBin(): bytes = the buffer, NullValue for NULL
pckReadBin(this, id, defaultNull) ==
    LET Default(d) ==
            IF d.err # "" THEN d
            ELSE IF d.flag THEN Ret(d.r, "", 0, NullValue, FALSE, 0)
            ELSE ReadSized(d.r, pckTypeBin, d.id)
    IN  Default(pckReadDefaultNull(this, defaultNull, id))

\* Mutant of ReadPush: the new frame starts with the counters of the frame around it
ReadPushCopy(this, type) ==
    [this EXCEPT !.tagStack = Append(SubSeq(@, 1, this.size), [RTop(this) EXCEPT !.type = type]),
                 !.size = @ + 1, !.top = this.size + 1]

\* lstAdd(this->tagStack, ...) and tagStackTop = the new element
ReadPush(this, type) ==
    [this EXCEPT !.tagStack = Append(SubSeq(@, 1, this.size), PackTagStack(type)),
                 !.size = @ + 1, !.top = this.size + 1]

\* pckReadArrayBegin() / pckReadObjBegin()
ReadBegin(this, type, id) ==
    LET Tag(t) == IF t.err # "" THEN t ELSE Value(ReadPush(t.r, type), 0)
    IN  Tag(pckReadTag(this, id, type, FALSE))

\* lstRemoveLast(); tagStackTop = lstGetLast(); tagNextId = 0
ReadPop(this) ==
    [this EXCEPT !.tagStack = SubSeq(@, 1, this.size - 1), !.size = @ - 1,
                 !.top = this.size - 1, !.tagNextId = 0]

\* "Make sure we are at the end of the container": pckReadTag() for id
\* 0xFFFFFFFF - 1 in peek mode
ReadToEnd(this) == pckReadTag(this, UINT_MAX - 1, pckTypeUnknown, TRUE)

\* "Pop object off the stack" and "Reset tagNextId to keep reading" after the
\* container was read to its end
ReadToEndPop(t) == IF t.err # "" THEN t ELSE Value(ReadPop(t.r), 0)

\* Mutant of pckReadArrayEnd: the container is read to its end before the check
pckReadArrayEndLate(this) ==
    LET Checked(t) ==
            IF this.size = 1 \/ RTop(this).type # pckTypeArray THEN Throw(t.r, "not in array")
            ELSE ReadToEndPop(t)
    IN  Checked(ReadToEnd(this))

\* pckReadArrayEnd(): the type is taken from tagStackTop
pckReadArrayEnd(this) ==
    IF this.size = 1 \/ RTop(this).type # pckTypeArray THEN Throw(this, "not in array")
    ELSE ReadToEndPop(ReadToEnd(this))

\* pckReadObjEnd(): the type is taken from lstGetLast(tagStack)
pckReadObjEnd(this) ==
    IF this.size = 1 \/ this.tagStack[this.size].type # pckTypeObj
        THEN Throw(this, "not in object")
    ELSE ReadToEndPop(ReadToEnd(this))

\* The while loop of pckReadEnd(): lstRemoveLast() changes neither tagStackTop
\* nor tagNextId, and leaves the removed element where tagStackTop points to
RECURSIVE ReadEndLoop(_)
ReadEndLoop(this) ==
    LET Removed(t) == IF t.err # "" THEN t ELSE ReadEndLoop([t.r EXCEPT !.size = @ - 1])
    IN  IF this.size > 0 THEN Removed(ReadToEnd(this)) ELSE Value(this, 0)

\* pckReadEnd(): tagStackTop = NULL after the loop
pckReadEnd(this) ==
    LET Ended(e) == IF e.err # "" THEN e
                    ELSE Value([e.r EXCEPT !.top = 0, !.tagStack = <<>>], 0)
    IN  Ended(ReadEndLoop(this))

\* The read function a call names, applied to a reader
ReadApplyCall(this, call) ==
    CASE call.op = "U32" -> pckReadU32(this, call.id, call.dn, call.dnum)
      [] call.op = "Str" -> pckReadStr(this, call.id, call.dn, call.dbytes)
      [] call.op = "Bin" -> pckReadBin(this, call.id, call.dn)
      [] call.op = "ReadNull" -> pckReadNull(this, call.id)
      [] call.op = "ReadNext" -> pckReadNext(this)
      [] call.op = "ArrayBegin" -> ReadBegin(this, pckTypeArray, call.id)
      [] call.op = "ObjBegin" -> ReadBegin(this, pckTypeObj, call.id)
      [] call.op = "ArrayEnd" -> pckReadArrayEnd(this)
      [] call.op = "ObjEnd" -> pckReadObjEnd(this)
      [] call.op = "End" -> pckReadEnd(this)


(***************************************************************************)
(* State                                                                   *)
(***************************************************************************)
VARIABLES
    w,          \* the PackWrite
    r,          \* the PackRead, constructed on the buffer pckWriteEnd() returns
    phase,      \* "write", "read" (after pckWriteEnd), "failed" (a read threw),
                \* "done" (after pckReadEnd)
    wlog,       \* history: the write calls so far with their parameters
    fields,     \* history: the fields the writer emitted, with their place in the pack
    frames,     \* history: the containers the writer began, frames[1] the outer one
    wcur,       \* history: the container the writer is in
    gcur,       \* history: the container the reader entered (0 = none the writer began)
    last,       \* the last read call: its parameters, its outcome, and the reader
                \* (pre) and the container (g) it was made in
    mir,        \* number of read calls so far if they repeat wlog call by call, else -1
    sync        \* history: the last call returned and the reader stands in
                \* container gcur of the pack (InSync)

vars == <<w, r, phase, wlog, fields, frames, wcur, gcur, last, mir, sync>>
writerVars == <<w, wlog, fields, frames, wcur>>
readerVars == <<r, gcur, last, mir, sync>>

\* A call and its parameters (those a function does not have are 0 / FALSE / <<>>)
Call(op, id, dn, dnum, dbytes) ==
    [op |-> op, id |-> id, dn |-> dn, dnum |-> dnum, dbytes |-> dbytes]

\* An entry of wlog: the call, the value written and whether it was elided
Written(call, num, bytes, null) ==
    [call |-> call, num |-> num, bytes |-> bytes, null |-> null]

\* An entry of fields: container, id, type and value of an emitted field, the
\* container it begins (0 = none), the offset of its tag and the offset after
\* pckWriteTag() is done
Field(type, id, tagValue, num, bytes, child) ==
    [frame |-> wcur, id |-> WriteTagId(w, id), type |-> type, num |-> num,
     bytes |-> bytes, child |-> child, tagOff |-> Len(w.buffer),
     valOff |-> Len(pckWriteTag(w, type, id, tagValue).buffer)]

NoCall == [call |-> Call("none", 0, FALSE, 0, <<>>), err |-> "", num |-> 0,
           bytes |-> <<>>, flag |-> FALSE, pre |-> pckReadNewBuf(<<>>), g |-> 0,
           insync |-> FALSE]

Init ==
    /\ w = pckWriteNewBuf
    /\ r = pckReadNewBuf(<<>>)
    /\ phase = "write"
    /\ wlog = <<>>
    /\ fields = <<>>
    /\ frames = <<[type |-> pckTypeObj, parent |-> 0, term |-> -1]>>
    /\ wcur = 1
    /\ gcur = 1
    /\ last = NoCall
    /\ mir = 0
    /\ sync = FALSE

(***************************************************************************)
(* Writer actions                                                          *)
(***************************************************************************)
\* Number of pckWriteXxx() calls other than container ends so far
WriteCount == Cardinality({i \in 1..Len(wlog) : wlog[i].call.op \notin {"ArrayEnd", "ObjEnd"}})

\* The writer can make another call that counts; the conditions of the write
\* actions that do not depend on what is written
CanWrite == phase = "write" /\ WriteCount < MaxOps

\* A write call that emits a field or elides it
WriteValue(call, type, num, bytes, null, w2) ==
    /\ phase = "write"
    /\ WriteCount < MaxOps
    /\ null \/ WriteTagAssert(w, call.id)
    /\ w' = w2
    /\ wlog' = Append(wlog, Written(call, num, bytes, null))
    /\ fields' = IF null THEN fields
                 ELSE Append(fields, Field(type, call.id,
                                           IF packTypeData[type].valueMultiBit THEN num
                                           ELSE IF Len(bytes) > 0 THEN 1 ELSE 0,
                                           num, bytes, 0))
    /\ UNCHANGED <<frames, wcur, phase>>
    /\ UNCHANGED readerVars

WriteU32(value, id, defaultNull, defaultValue) ==
    WriteValue(Call("U32", id, defaultNull, defaultValue, <<>>), pckTypeU32, value, <<>>,
               WriteIsNull(defaultNull, value = defaultValue),
               pckWriteU32(w, value, id, defaultNull, defaultValue))

WriteStr(value, id, defaultNull, defaultValue) ==
    WriteValue(Call("Str", id, defaultNull, 0, defaultValue), pckTypeStr, 0, value,
               WriteIsNull(defaultNull, value = defaultValue),
               pckWriteStr(w, value, id, defaultNull, defaultValue))

\* ASSERT(value != NULL) when the value is not elided
WriteBin(value, id, defaultNull) ==
    /\ value = NullValue => defaultNull
    /\ WriteValue(Call("Bin", id, defaultNull, 0, <<>>), pckTypeBin, 0, value,
                  WriteIsNull(defaultNull, value = NullValue),
                  pckWriteBin(w, value, id, defaultNull))

\* pckWriteI32/I64/Ptr/Time/U32/U64() of a value that is not elided: pckWriteTag()
\* with the unsigned form of the value
WriteMultiBit(type, value, id) ==
    WriteValue(Call("MultiBit", id, FALSE, 0, <<>>), type, value, <<>>, FALSE,
               pckWriteTag(w, type, id, value))

\* pckWriteI32() of a value that is not elided; the field has the unsigned form
WriteI32(value, id) ==
    WriteValue(Call("I32", id, FALSE, 0, <<>>), pckTypeI32, cvtInt32ToZigZag(value), <<>>,
               FALSE, pckWriteI32(w, value, id, FALSE, 0))

WriteContainerBegin(op, type, id) ==
    /\ phase = "write"
    /\ WriteCount < MaxOps
    /\ WriteTagAssert(w, id)
    /\ w' = WriteBegin(w, type, id)
    /\ wlog' = Append(wlog, Written(Call(op, id, FALSE, 0, <<>>), 0, <<>>, FALSE))
    /\ fields' = Append(fields, Field(type, id, 0, 0, <<>>, Len(frames) + 1))
    /\ frames' = Append(frames, [type |-> type, parent |-> wcur, term |-> -1])
    /\ wcur' = Len(frames) + 1
    /\ UNCHANGED phase
    /\ UNCHANGED readerVars

WriteArrayBegin(id) == WriteContainerBegin("ArrayBegin", pckTypeArray, id)
WriteObjBegin(id) == WriteContainerBegin("ObjBegin", pckTypeObj, id)

\* ASSERT(lstSize(tagStack) != 1) and ASSERT(lstGetLast(tagStack)->type == type)
WriteContainerEndAct(op, type) ==
    /\ phase = "write"
    /\ Len(w.tagStack) # 1
    /\ WTop(w).type = type
    /\ w' = WriteContainerEnd(w)
    /\ wlog' = Append(wlog, Written(Call(op, 0, FALSE, 0, <<>>), 0, <<>>, FALSE))
    /\ frames' = [frames EXCEPT ![wcur].term = Len(w.buffer)]
    /\ wcur' = frames[wcur].parent
    /\ UNCHANGED <<fields, phase>>
    /\ UNCHANGED readerVars

WriteArrayEnd == WriteContainerEndAct("ArrayEnd", pckTypeArray)
WriteObjEnd == WriteContainerEndAct("ObjEnd", pckTypeObj)

\* pckWriteEnd() with ASSERT(lstSize(tagStack) == 1); the caller then makes a
\* reader of the buffer (of what the sink was given, if there is one), which
\* stands at the start of the outer container
WriteEndReader(source) ==
    /\ phase = "write"
    /\ Len(w.tagStack) = 1
    /\ w' = pckWriteEnd(w)
    /\ wlog' = Append(wlog, Written(Call("End", 0, FALSE, 0, <<>>), 0, <<>>, FALSE))
    /\ frames' = [frames EXCEPT ![1].term = Len(w.buffer)]
    /\ r' = IF source THEN pckReadNew(w'.buffer)
            ELSE pckReadNewBuf(IF w'.write = NullValue THEN w'.buffer ELSE w'.write)
    /\ phase' = "read"
    /\ sync' = TRUE
    /\ UNCHANGED <<fields, wcur, gcur, last, mir>>

WriteEnd == WriteEndReader(FALSE)

\* pckWriteEnd(); the caller then makes a reader with the pack as its source
WriteEndSrc == WriteEndReader(TRUE)

(***************************************************************************)
(* Where the reader stands in the pack the writer made                     *)
(***************************************************************************)
\* The fields of container frame, and the ids below id among them
FieldsOf(frame) == {i \in 1..Len(fields) : fields[i].frame = frame}
IdsBelow(frame, id) == {fields[i].id : i \in {j \in FieldsOf(frame) : fields[j].id < id}}
Max0(S) == IF S = {} THEN 0 ELSE CHOOSE x \in S : \A y \in S : y <= x

\* The id of the field before the field with this id (0 = it is the first), and
\* the id of the last field of the container
PrevId(frame, id) == Max0(IdsBelow(frame, id))
LastId(frame) == PrevId(frame, UINT_MAX)

\* The value pckWriteTag() was given for a field
TagValue(f) ==
    IF packTypeData[f.type].valueMultiBit THEN f.num
    ELSE IF f.type = pckTypeBin \/ f.type = pckTypeStr
        THEN (IF Len(f.bytes) > 0 THEN 1 ELSE 0)
        ELSE 0

\* The containers around frame, the outer one first
RECURSIVE Path(_)
Path(frame) == IF frame = 0 THEN <<>> ELSE Append(Path(frames[frame].parent), frame)

\* A reader with a source seen as the reader without one that has consumed the
\* same bytes of the pack: its position is the number of bytes the source has
\* given less those still in the buffer
ReaderView(rd) ==
    IF rd.read = NullValue THEN rd
    ELSE [rd EXCEPT !.buffer = w.buffer,
                    !.bufferPos = rd.readTotal - (rd.bufferMax - rd.bufferPos),
                    !.bufferMax = Len(w.buffer),
                    !.read = NullValue,
                    !.readTotal = 0]

\* The reader rd stands in container frame of the pack: its stack is the path
\* to frame with every outer container consumed up to the field that begins
\* the next one, and in frame it is either before the tag of a field (or the
\* terminator) with everything before consumed, or has parsed exactly that tag.
InSync(rd, frame) ==
    LET path == Path(frame)
        top == rd.tagStack[rd.size]
    IN  /\ frame # 0
        /\ rd.top = rd.size
        /\ rd.size = Len(path)
        /\ \A i \in 1..Len(path) : rd.tagStack[i].type = frames[path[i]].type
        /\ \A i \in 1..Len(path) - 1 :
              \E j \in FieldsOf(path[i]) :
                  fields[j].child = path[i + 1] /\ fields[j].id = rd.tagStack[i].idLast
        /\ \/ /\ rd.tagNextId = 0
              /\ \/ \E j \in FieldsOf(frame) :
                        /\ rd.bufferPos = fields[j].tagOff
                        /\ top.idLast = PrevId(frame, fields[j].id)
                 \/ /\ rd.bufferPos = frames[frame].term
                    /\ top.idLast = LastId(frame)
           \/ /\ rd.tagNextId = UINT_MAX
              /\ rd.bufferPos = frames[frame].term + 1
              /\ top.idLast >= LastId(frame)
           \/ \E j \in FieldsOf(frame) :
                  /\ rd.tagNextId = fields[j].id
                  /\ rd.tagNextType = fields[j].type
                  /\ rd.tagNextValue = TagValue(fields[j])
                  /\ rd.bufferPos = fields[j].valOff
                  /\ top.idLast >= PrevId(frame, fields[j].id)
                  /\ top.idLast < fields[j].id

(***************************************************************************)
(* Reader actions                                                          *)
(***************************************************************************)
\* The calls that write or read a field
FieldOps == {"U32", "Str", "Bin", "ArrayBegin", "ObjBegin"}

\* id = 0 is allowed while the next id stays in the range the writer can reach
ReadIdOk(id) == id # 0 \/ RTop(r).idLast < MaxId + MaxOps

\* The container of the writer that the field begun at id of container frame is
BegunFrame(frame, id, type) ==
    LET fs == {i \in 1..Len(fields) :
                /\ fields[i].frame = frame /\ fields[i].id = id
                /\ fields[i].type = type /\ fields[i].child # 0}
    IN  IF frame = 0 \/ fs = {} THEN 0 ELSE fields[CHOOSE i \in fs : TRUE].child

\* A read call: out is the outcome of the function, g the container after it.
\* A call that throws ends the use of the reader.
ReadCall(call, out, g) ==
    /\ phase = "read"
    /\ call.op \in FieldOps \cup {"ReadNull"} => ReadIdOk(call.id)
    /\ r' = out.r
    /\ last' = [call |-> call, err |-> out.err, num |-> out.num, bytes |-> out.bytes,
                flag |-> out.flag, pre |-> r, g |-> gcur, insync |-> sync]
    /\ mir' = IF mir >= 0 /\ mir < Len(wlog) /\ wlog[mir + 1].call = call
                THEN mir + 1 ELSE -1
    /\ gcur' = IF out.err = "" THEN g ELSE gcur
    /\ sync' = (out.err = "" /\ InSync(ReaderView(out.r), g))
    /\ phase' = IF out.err # "" THEN "failed"
                ELSE IF call.op = "End" THEN "done" ELSE "read"
    /\ UNCHANGED writerVars

ReadU32(id, defaultNull, defaultValue) ==
    ReadCall(Call("U32", id, defaultNull, defaultValue, <<>>),
             pckReadU32(r, id, defaultNull, defaultValue), gcur)

ReadStr(id, defaultNull, defaultValue) ==
    ReadCall(Call("Str", id, defaultNull, 0, defaultValue),
             pckReadStr(r, id, defaultNull, defaultValue), gcur)

ReadBin(id, defaultNull) ==
    ReadCall(Call("Bin", id, defaultNull, 0, <<>>), pckReadBin(r, id, defaultNull), gcur)

ReadNull(id) ==
    ReadCall(Call("ReadNull", id, FALSE, 0, <<>>), pckReadNull(r, id), gcur)

ReadNext ==
    ReadCall(Call("ReadNext", 0, FALSE, 0, <<>>), pckReadNext(r), gcur)

ReadContainerBegin(op, type, id) ==
    LET Begun(out) ==
            ReadCall(Call(op, id, FALSE, 0, <<>>), out,
                     IF out.err = ""
                        THEN BegunFrame(gcur, out.r.tagStack[out.r.top - 1].idLast, type)
                        ELSE gcur)
    IN  Begun(ReadBegin(r, type, id))

ReadArrayBegin(id) == ReadContainerBegin("ArrayBegin", pckTypeArray, id)
ReadObjBegin(id) == ReadContainerBegin("ObjBegin", pckTypeObj, id)

ReadArrayEnd ==
    ReadCall(Call("ArrayEnd", 0, FALSE, 0, <<>>), pckReadArrayEnd(r),
             IF gcur = 0 THEN 0 ELSE frames[gcur].parent)

ReadObjEnd ==
    ReadCall(Call("ObjEnd", 0, FALSE, 0, <<>>), pckReadObjEnd(r),
             IF gcur = 0 THEN 0 ELSE frames[gcur].parent)

ReadEnd ==
    ReadCall(Call("End", 0, FALSE, 0, <<>>), pckReadEnd(r), 0)

\* The caller takes the outcome of a call that returned and goes on
TakeResult ==
    /\ phase = "read"
    /\ last # NoCall
    /\ last' = NoCall
    /\ UNCHANGED <<w, r, phase, wlog, fields, frames, wcur, gcur, mir, sync>>

(***************************************************************************)
(* Spec: any pack of U32 and Bin fields and containers written with        *)
(* explicit ids, and any sequence of read calls on it.  Read calls are     *)
(* made as long as the reader stands in the pack (InSync) and has not      *)
(* passed the ids the writer uses.                                         *)
(***************************************************************************)
Explore == phase = "read" /\ last = NoCall /\ sync /\ RTop(r).idLast <= MaxId

Next ==
    \/ CanWrite /\ \E value \in U32Values, id \in Ids \ {0} : WriteU32(value, id, FALSE, 0)
    \/ CanWrite /\ \E value \in BinShortLong, id \in Ids \ {0} : WriteBin(value, id, FALSE)
    \/ CanWrite /\ \E id \in Ids \ {0} : WriteArrayBegin(id)
    \/ CanWrite /\ \E id \in Ids \ {0} : WriteObjBegin(id)
    \/ WriteArrayEnd
    \/ WriteObjEnd
    \/ WriteEnd
    \/ Explore /\ \E id \in Ids, defaultNull \in BOOLEAN, defaultValue \in U32Defaults :
                    ReadU32(id, defaultNull, defaultValue)
    \/ Explore /\ \E id \in Ids, defaultNull \in BOOLEAN : ReadBin(id, defaultNull)
    \/ Explore /\ \E id \in Ids : ReadNull(id)
    \/ Explore /\ ReadNext
    \/ Explore /\ \E id \in Ids : ReadArrayBegin(id)
    \/ Explore /\ \E id \in Ids : ReadObjBegin(id)
    \/ Explore /\ ReadArrayEnd
    \/ Explore /\ ReadObjEnd
    \/ Explore /\ ReadEnd
    \/ TakeResult

Spec == Init /\ [][Next]_vars

(***************************************************************************)
(* SpecRT: any sequence of typed writes, with and without elision, and the *)
(* reader that repeats the writer's calls one by one                       *)
(***************************************************************************)
\* The call the reader has to make next, if there is one
Replay(op) ==
    /\ phase = "read"
    /\ mir >= 0
    /\ mir < Len(wlog)
    /\ wlog[mir + 1].call.op = op

ReplayCall == wlog[mir + 1].call

NextRT ==
    \/ CanWrite /\ \E value \in U32Values, id \in Ids, defaultNull \in BOOLEAN,
          defaultValue \in U32Defaults : WriteU32(value, id, defaultNull, defaultValue)
    \/ CanWrite /\ \E value \in StrValues, id \in Ids, defaultNull \in BOOLEAN,
          defaultValue \in StrDefaults : WriteStr(value, id, defaultNull, defaultValue)
    \/ CanWrite /\ \E value \in BinValues, id \in Ids, defaultNull \in BOOLEAN :
          WriteBin(value, id, defaultNull)
    \/ CanWrite /\ \E id \in Ids : WriteArrayBegin(id)
    \/ CanWrite /\ \E id \in Ids : WriteObjBegin(id)
    \/ WriteArrayEnd
    \/ WriteObjEnd
    \/ WriteEnd
    \/ Replay("U32") /\ ReadU32(ReplayCall.id, ReplayCall.dn, ReplayCall.dnum)
    \/ Replay("Str") /\ ReadStr(ReplayCall.id, ReplayCall.dn, ReplayCall.dbytes)
    \/ Replay("Bin") /\ ReadBin(ReplayCall.id, ReplayCall.dn)
    \/ Replay("ArrayBegin") /\ ReadArrayBegin(ReplayCall.id)
    \/ Replay("ObjBegin") /\ ReadObjBegin(ReplayCall.id)
    \/ Replay("ArrayEnd") /\ ReadArrayEnd
    \/ Replay("ObjEnd") /\ ReadObjEnd
    \/ Replay("End") /\ ReadEnd

SpecRT == Init /\ [][NextRT]_vars

(***************************************************************************)
(* SpecTag: the tags of fields of the multi-bit types and of containers     *)
(* with ids up to MaxTagId, and the reader parsing the first tag.           *)
(***************************************************************************)
\* Ids that give the ID deltas 0..4, 7, 8, 15 and 16 and more on a new writer
TagIds == {1, 2, 3, 4, 5, 8, 9, 16, MaxTagId}
TagValues == {0, 1, 2, 200}
MultiBitTypes == {t \in 0..11 : packTypeData[t].valueMultiBit}
I32Values == {-2, -1, 0, 1, 2}

\* The writer can make another call of the MaxTagOps it has
CanWriteTag == phase = "write" /\ WriteCount < MaxTagOps

NextTag ==
    \/ CanWriteTag /\ \E type \in MultiBitTypes, value \in TagValues, id \in TagIds :
          WriteMultiBit(type, value, id)
    \/ CanWriteTag /\ \E value \in I32Values, id \in {1, MaxTagId} :
          WriteI32(value, id)
    \/ CanWriteTag /\ \E id \in TagIds : WriteArrayBegin(id)
    \/ CanWriteTag /\ \E id \in TagIds : WriteObjBegin(id)
    \/ WriteArrayEnd
    \/ WriteObjEnd
    \/ WriteEnd
    \/ Explore /\ ReadNext

SpecTag == Init /\ [][NextTag]_vars

(***************************************************************************)
(* SpecVarint: pckWriteUInt64Internal() of a value of full width on a new   *)
(* writer, or a reader made on raw bytes, and pckReadUInt64Internal() on    *)
(* the bytes.                                                              *)
(***************************************************************************)
\* Values of 1..10 digits: the highest digit 1 or 127 (bit 63 alone in the
\* tenth), the digits below all 0, all 1 or all 127; and 0
VarintValues ==
    {U64Zero} \cup
    {[k \in 1..PACK_UINT64_SIZE_MAX |->
        IF k < n THEN low
        ELSE IF k = n THEN (IF n = PACK_UINT64_SIZE_MAX THEN 1 ELSE high)
        ELSE 0] : n \in 1..PACK_UINT64_SIZE_MAX, low \in {0, 1, 127}, high \in {1, 127}}

\* Raw input: up to MaxRaw bytes with the high bit set, then one without or none
RawBuffers ==
    {[k \in 1..n |-> byte] \o end : n \in 0..MaxRaw, byte \in {128, 255}, end \in {<<>>, <<5>>}}

\* pckWriteUInt64Internal(value) on a new writer; a reader is made on the bytes
VarintWrite(value) ==
    /\ phase = "write"
    /\ wlog = <<>>
    /\ w' = pckWriteUInt64InternalWide(w, value)
    /\ wlog' = <<Written(Call("Varint", 0, FALSE, 0, <<>>), 0, value, FALSE)>>
    /\ r' = pckReadNewBuf(w'.buffer)
    /\ phase' = "read"
    /\ UNCHANGED <<fields, frames, wcur, gcur, last, mir, sync>>

\* A reader made on bytes no writer made
VarintRaw(buffer) ==
    /\ phase = "write"
    /\ wlog = <<>>
    /\ wlog' = <<Written(Call("Raw", 0, FALSE, 0, <<>>), 0, buffer, FALSE)>>
    /\ r' = pckReadNewBuf(buffer)
    /\ phase' = "read"
    /\ UNCHANGED <<w, fields, frames, wcur, gcur, last, mir, sync>>

\* pckReadUInt64Internal() at the start of the bytes
VarintRead ==
    /\ last = NoCall
    /\ ReadCall(Call("ReadVarint", 0, FALSE, 0, <<>>), pckReadUInt64InternalWide(r), gcur)

NextVarint ==
    \/ \E value \in VarintValues : VarintWrite(value)
    \/ \E buffer \in RawBuffers : VarintRaw(buffer)
    \/ VarintRead

SpecVarint == Init /\ [][NextVarint]_vars

(***************************************************************************)
(* SpecSink: a writer with a sink (pckWriteNew) and a buffer of             *)
(* IoBufferSize bytes writes any pack of U32 and Str fields and containers. *)
(***************************************************************************)
SinkStrValues == {<<>>, <<72>>, [i \in 1..MaxSinkLen |-> 72]}

InitSink ==
    /\ w = pckWriteNew
    /\ r = pckReadNewBuf(<<>>)
    /\ phase = "write"
    /\ wlog = <<>>
    /\ fields = <<>>
    /\ frames = <<[type |-> pckTypeObj, parent |-> 0, term |-> -1]>>
    /\ wcur = 1
    /\ gcur = 1
    /\ last = NoCall
    /\ mir = 0
    /\ sync = FALSE

NextSink ==
    \/ CanWrite /\ \E value \in U32Values \cup {200}, defaultNull \in BOOLEAN, defaultValue \in U32Defaults :
          WriteU32(value, 0, defaultNull, defaultValue)
    \/ CanWrite /\ \E value \in SinkStrValues : WriteStr(value, 0, FALSE, <<>>)
    \/ WriteArrayBegin(0)
    \/ WriteObjBegin(0)
    \/ WriteArrayEnd
    \/ WriteObjEnd
    \/ WriteEnd

SpecSink == InitSink /\ [][NextSink]_vars

(***************************************************************************)
(* SpecSrc: a pack of U32 and Str fields and arrays is read by a reader     *)
(* with a source (pckReadNew) and a buffer of IoBufferSize bytes, with any  *)
(* sequence of read calls.                                                 *)
(***************************************************************************)
NextSrc ==
    \/ CanWrite /\ \E id \in Ids \ {0} : WriteU32(7, id, FALSE, 0)
    \/ CanWrite /\ \E value \in SinkStrValues, id \in Ids \ {0} : WriteStr(value, id, FALSE, <<>>)
    \/ CanWrite /\ \E id \in Ids \ {0} : WriteArrayBegin(id)
    \/ WriteArrayEnd
    \/ WriteEndSrc
    \/ Explore /\ \E id \in Ids, defaultNull \in BOOLEAN : ReadU32(id, defaultNull, 7)
    \/ Explore /\ \E id \in Ids : ReadStr(id, FALSE, <<>>)
    \/ Explore /\ ReadNext
    \/ Explore /\ \E id \in Ids : ReadArrayBegin(id)
    \/ Explore /\ ReadArrayEnd
    \/ Explore /\ ReadEnd
    \/ TakeResult

SpecSrc == Init /\ [][NextSrc]_vars

(***************************************************************************)
(* SpecFill: pckReadBuffer() and the loop that copies a sized value, with   *)
(* any size up to MaxFill, on a reader without a source on raw bytes.       *)
(***************************************************************************)
MaxFill == 3

\* pckReadBuffer(size), after which the caller advances bufferPos by the count
\* returned, as every caller does
FillBuffer(size) ==
    /\ last = NoCall
    /\ ReadCall(Call("Buffer", 0, FALSE, size, <<>>),
                (LET Consumed(out) == [out EXCEPT !.r.bufferPos = @ + out.num]
                 IN  Consumed(pckReadBuffer(r, size))), gcur)

\* The loop of pckReadStr() and pckReadBin() for a value of size bytes
FillBytes(size) ==
    /\ last = NoCall
    /\ ReadCall(Call("Bytes", 0, FALSE, size, <<>>), ReadBytes(r, size, <<>>), gcur)

NextFill ==
    \/ \E buffer \in RawBuffers : VarintRaw(buffer)
    \/ \E size \in 1..MaxFill : FillBuffer(size)
    \/ \E size \in 1..MaxFill : FillBytes(size)
    \/ TakeResult

SpecFill == Init /\ [][NextFill]_vars

(***************************************************************************)
(* SpecPos: a writer whose calls all give id 0: U32 and Str fields, written *)
(* or elided as equal to the default, pckWriteNull and arrays, in any mix   *)
(* of up to MaxPosOps calls.                                               *)
(***************************************************************************)
MaxPosOps == 4

PosWrite(call, num, bytes, null, w2) ==
    /\ phase = "write"
    /\ Len(wlog) < MaxPosOps
    /\ w' = w2
    /\ wlog' = Append(wlog, Written(call, num, bytes, null))
    /\ UNCHANGED <<phase, fields, frames, wcur>>
    /\ UNCHANGED readerVars

NextPos ==
    \/ \E value \in U32Values, defaultNull \in BOOLEAN, defaultValue \in U32Defaults :
          PosWrite(Call("U32", 0, defaultNull, defaultValue, <<>>), value, <<>>,
                   WriteIsNull(defaultNull, value = defaultValue),
                   pckWriteU32(w, value, 0, defaultNull, defaultValue))
    \/ \E value \in StrValues, defaultNull \in BOOLEAN, defaultValue \in StrDefaults :
          PosWrite(Call("Str", 0, defaultNull, 0, defaultValue), 0, value,
                   WriteIsNull(defaultNull, value = defaultValue),
                   pckWriteStr(w, value, 0, defaultNull, defaultValue))
    \/ PosWrite(Call("Null", 0, FALSE, 0, <<>>), 0, <<>>, TRUE, pckWriteNull(w))
    \/ PosWrite(Call("ArrayBegin", 0, FALSE, 0, <<>>), 0, <<>>, FALSE,
                WriteBegin(w, pckTypeArray, 0))
    \/ /\ Len(w.tagStack) # 1
       /\ PosWrite(Call("ArrayEnd", 0, FALSE, 0, <<>>), 0, <<>>, FALSE, WriteContainerEnd(w))

SpecPos == Init /\ [][NextPos]_vars

(***************************************************************************)
(* SpecId: fields of every tag category (U32 with a small and a large       *)
(* value, Str, array) written with ids that give the ID deltas of           *)
(* IdDeltas, and a reader that looks at the next tag with pckReadNext and   *)
(* then reads the field it shows.                                           *)
(***************************************************************************)
\* ID deltas that fit the id bits of every tag category (1, 2 and 3 bits), that
\* exceed those of some, and one whose high bits take two bytes
IdDeltas == {0, 1, 4, 8, 1103}

\* The id that has ID delta d in the container the writer is in
IdAfter(d) == WTop(w).idLast + d + 1

\* The reader stands in the pack and the caller has taken the last result
ExploreId == phase = "read" /\ last = NoCall /\ sync

\* pckReadNext() has shown a field of this type, which is not consumed
Shown(type) ==
    /\ ExploreId
    /\ r.tagNextId # 0
    /\ r.tagNextId # UINT_MAX
    /\ r.tagNextType = type

NextId ==
    \/ CanWrite /\ \E value \in U32Values, d \in IdDeltas : WriteU32(value, IdAfter(d), FALSE, 0)
    \/ CanWrite /\ \E value \in StrValues, d \in IdDeltas : WriteStr(value, IdAfter(d), FALSE, <<>>)
    \/ CanWrite /\ \E d \in IdDeltas : WriteArrayBegin(IdAfter(d))
    \/ WriteArrayEnd
    \/ WriteEnd
    \/ ExploreId /\ r.tagNextId = 0 /\ ReadNext
    \/ Shown(pckTypeU32) /\ ReadU32(r.tagNextId, FALSE, 0)
    \/ Shown(pckTypeStr) /\ ReadStr(r.tagNextId, FALSE, <<>>)
    \/ Shown(pckTypeArray) /\ ReadArrayBegin(r.tagNextId)
    \/ ExploreId /\ ReadArrayEnd
    \/ TakeResult

SpecId == Init /\ [][NextId]_vars

(***************************************************************************)
(* Helpers of the claims                                                   *)
(***************************************************************************)
\* A call has been made and its outcome is there
Called(ops) == last.call.op \in ops

\* The id pckReadTag() looks for: the id given, or idLast + 1 for id 0
AskedId(rd, id) == IF id = 0 THEN RTop(rd).idLast + 1 ELSE id

\* The fields of container frame the reader rd has not consumed
Unread(rd, frame) == {i \in FieldsOf(frame) : fields[i].id > RTop(rd).idLast}

\* The last call was made by a reader standing in the pack
LastInSync == last.g # 0 /\ last.insync

\* The value the last call returned is the value of this entry of wlog
ReturnedValueOf(e) ==
    /\ e.call.op = "U32" => last.num = e.num
    /\ e.call.op \in {"Str", "Bin"} => last.bytes = e.bytes

\* The ids the caller of the first n writes means, as the last id of every open
\* container: an explicit id is itself, id 0 is the id after the caller's
\* previous write in the container, elided or not.  ok = they ascend strictly.
RECURSIVE CallerIds(_)
CallerIds(n) ==
    IF n = 0 THEN [ok |-> TRUE, ids |-> <<0>>]
    ELSE LET p == CallerIds(n - 1)
             e == wlog[n]
             d == Len(p.ids)
             id == IF e.call.id = 0 THEN p.ids[d] + 1 ELSE e.call.id
         IN  IF ~p.ok THEN p
             ELSE IF e.call.op \in {"ArrayEnd", "ObjEnd", "End"}
                 THEN [ok |-> TRUE, ids |-> SubSeq(p.ids, 1, d - 1)]
             ELSE IF id <= p.ids[d] THEN [ok |-> FALSE, ids |-> p.ids]
             ELSE IF e.call.op \in {"ArrayBegin", "ObjBegin"}
                 THEN [ok |-> TRUE, ids |-> Append([p.ids EXCEPT ![d] = id], 0)]
             ELSE [ok |-> TRUE, ids |-> [p.ids EXCEPT ![d] = id]]

AscendingIds == CallerIds(Len(wlog)).ok

\* The writer after the calls of log, made one after the other
ApplyCall(this, e) ==
    CASE e.call.op = "U32" -> pckWriteU32(this, e.num, e.call.id, e.call.dn, e.call.dnum)
      [] e.call.op = "Str" -> pckWriteStr(this, e.bytes, e.call.id, e.call.dn, e.call.dbytes)
      [] e.call.op = "Bin" -> pckWriteBin(this, e.bytes, e.call.id, e.call.dn)
      [] e.call.op = "ArrayBegin" -> WriteBegin(this, pckTypeArray, e.call.id)
      [] e.call.op = "ObjBegin" -> WriteBegin(this, pckTypeObj, e.call.id)
      [] e.call.op \in {"ArrayEnd", "ObjEnd"} -> WriteContainerEnd(this)
      [] e.call.op = "End" -> pckWriteEnd(this)
      [] e.call.op = "Null" -> pckWriteNull(this)

RECURSIVE ApplyLog(_, _)
ApplyLog(this, log) ==
    IF log = <<>> THEN this ELSE ApplyLog(ApplyCall(this, Head(log)), Tail(log))

\* The writer's calls without those that elided their field
IsEmitted(e) == ~e.null
WithoutElided == SelectSeq(wlog, IsEmitted)

\* Call i elided its field and call j is the next call that did not
NextEmitted(i, j) ==
    /\ i < j
    /\ wlog[i].null
    /\ ~wlog[j].null
    /\ \A k \in (i + 1)..(j - 1) : wlog[k].null

\* Every field written next after an elided one, in the same container, is
\* written with an explicit id
ExplicitAfterElided ==
    \A i, j \in 1..Len(wlog) :
        (NextEmitted(i, j) /\ wlog[j].call.op \in FieldOps) => wlog[j].call.id # 0

\* The type a call asks for
TypeOf(op) ==
    CASE op = "U32" -> pckTypeU32
      [] op = "Str" -> pckTypeStr
      [] op = "Bin" -> pckTypeBin
      [] op = "ArrayBegin" -> pckTypeArray
      [] op = "ObjBegin" -> pckTypeObj
      [] OTHER -> pckTypeUnknown

\* The id the last call asked for, the fields the reader had not consumed
\* before it, and the first of them
LastId0 == AskedId(last.pre, last.call.id)
LastUnread == Unread(last.pre, last.g)
LastNext(j) == j \in LastUnread /\ \A i \in LastUnread : fields[j].id <= fields[i].id

\* The fields the last call had to skip to get to its id; none begins a container
LastSkipped == {i \in LastUnread : fields[i].id < LastId0}
SkipsNoContainer == \A i \in LastSkipped : fields[i].child = 0

\* Every read that returns on reader a returns the same, and leaves the same
\* reader, on reader b
SameOutcome(x, y) == x.err = "" => y = x
SameReads(a, b) ==
    \A id \in Ids :
        /\ \A dn \in BOOLEAN, dv \in U32Defaults :
              SameOutcome(pckReadU32(a, id, dn, dv), pckReadU32(b, id, dn, dv))
        /\ \A dn \in BOOLEAN : SameOutcome(pckReadBin(a, id, dn), pckReadBin(b, id, dn))
        /\ SameOutcome(pckReadNull(a, id), pckReadNull(b, id))
        /\ \A type \in {pckTypeArray, pckTypeObj} :
              SameOutcome(ReadBegin(a, type, id), ReadBegin(b, type, id))

\* No field of the containers the last call was made in is left to read
NothingUnread ==
    \A k \in 1..Len(Path(last.g)) :
        \A i \in FieldsOf(Path(last.g)[k]) :
            fields[i].id <= last.pre.tagStack[k].idLast

(***************************************************************************)
(* Claims                                                                  *)
(***************************************************************************)
\* C1 (as the spec states it): when the ids of the writer's calls ascend, a
\* reader that repeats the calls gets no error, and every typed read returns
\* the value that was written (the default, or NULL for Bin, when the write
\* was elided).
C1_RoundTrip ==
    (AscendingIds /\ mir >= 1 /\ ~Called({"none"}))
        => (last.err = "" /\ ReturnedValueOf(wlog[mir]))

\* C2 (as the spec states it): a typed read with an explicit id that has to
\* skip at least one field, none of them a container, and whose field is there
\* with the requested type, throws nothing and returns the value of that field.
C2_SkipThenDecode ==
    \A j \in 1..Len(fields) :
        ( /\ Called({"U32", "Bin"})
          /\ LastInSync
          /\ last.call.id # 0
          /\ j \in Unread(last.pre, last.g)
          /\ fields[j].id = last.call.id
          /\ fields[j].type = TypeOf(last.call.op)
          /\ LastSkipped # {}
          /\ SkipsNoContainer )
        => /\ last.err = ""
           /\ last.call.op = "U32" => last.num = fields[j].num
           /\ last.call.op = "Bin" => last.bytes = fields[j].bytes

\* C3 (as the spec states it): the pack holds the bytes the writer produces
\* when the calls that elided their field are not made at all.
C3_ElidedAsNotWritten == w.buffer = ApplyLog(pckWriteNewBuf, WithoutElided).buffer

\* C3 (amended): the pack holds the bytes the writer produces when the calls
\* that elided their field are not made at all, provided the field written
\* next in the same container has an explicit id.
C3_ElidedAsNotWrittenExplicit ==
    ExplicitAfterElided => w.buffer = ApplyLog(pckWriteNewBuf, WithoutElided).buffer

C3_Witness ==
    /\ phase = "read"
    /\ ExplicitAfterElided
    /\ \E i, j \in 1..Len(wlog) : NextEmitted(i, j) /\ wlog[j].call.op \in FieldOps

\* C4: a typed read of an id that no field has, made when the next field has a
\* larger id or none is left, returns the default (NULL for Bin) and marks the
\* id as read when defaultNull is set, and throws 'does not exist' otherwise.
C4_AbsentField ==
    ( /\ Called({"U32", "Bin"})
      /\ LastId0 > RTop(last.pre).idLast
      /\ \A i \in LastUnread : fields[i].id > LastId0
      /\ LastInSync )
    => IF last.call.dn
          THEN /\ last.err = ""
               /\ last.call.op = "U32" => last.num = last.call.dnum
               /\ last.call.op = "Bin" => last.bytes = NullValue
               /\ RTop(r).idLast = LastId0
          ELSE last.err = "does not exist"

C4_Witness ==
    /\ Called({"Bin"})
    /\ LastInSync
    /\ last.call.dn
    /\ LastId0 > RTop(last.pre).idLast
    /\ LastUnread # {}
    /\ \A i \in LastUnread : fields[i].id > LastId0
    /\ last.bytes = NullValue

\* C5: a typed read or container begin of the id of the next field, with
\* another type than the field has, throws the type error, returns nothing,
\* and leaves idLast and the stack as they were.
C5_TypeMismatch ==
    \A j \in 1..Len(fields) :
        ( /\ Called({"U32", "Bin", "ArrayBegin", "ObjBegin"})
          /\ fields[j].id = LastId0
          /\ fields[j].type # TypeOf(last.call.op)
          /\ LastNext(j)
          /\ LastInSync )
        => /\ last.err = "type"
           /\ last.num = 0 /\ last.bytes = <<>>
           /\ r.tagStack = last.pre.tagStack
           /\ r.size = last.pre.size /\ r.top = last.pre.top

C5_Witness ==
    \E j \in 1..Len(fields) :
        /\ Called({"ArrayBegin"})
        /\ LastInSync
        /\ LastNext(j)
        /\ fields[j].id = LastId0
        /\ fields[j].type = pckTypeU32
        /\ last.err = "type"

\* C6: a read with an explicit id that is not greater than idLast throws
\* 'already read' and leaves the reader as it was; and a typed read or
\* container begin that returns leaves idLast at the id it asked for.
C6_AlreadyRead ==
    /\ ( /\ Called({"U32", "Bin", "ReadNull", "ArrayBegin", "ObjBegin"})
         /\ last.call.id # 0
         /\ last.call.id <= RTop(last.pre).idLast )
       => (last.err = "already read" /\ r = last.pre)
    /\ (Called({"U32", "Bin"}) /\ last.err = "") => RTop(r).idLast = LastId0
    /\ (Called({"ArrayBegin", "ObjBegin"}) /\ last.err = "")
       => r.tagStack[r.top - 1].idLast = LastId0

C6_Witness ==
    /\ Called({"U32"})
    /\ last.call.id # 0
    /\ last.call.id = RTop(last.pre).idLast
    /\ last.pre.tagNextId # 0
    /\ last.err = "already read"

\* C7 (as the spec states it): pckReadNull() of an id that is not read yet,
\* with no container among the fields before that id, returns TRUE exactly
\* when no unconsumed field of the container has the id.
C7_NullIffAbsent ==
    ( /\ Called({"ReadNull"})
      /\ LastInSync
      /\ LastId0 > RTop(last.pre).idLast
      /\ SkipsNoContainer )
    => /\ last.err = ""
       /\ last.flag = (\A i \in LastUnread : fields[i].id # LastId0)

C9_ContainerEnd ==
    ( /\ Called({"ArrayEnd", "ObjEnd"})
      /\ LastInSync
      /\ last.g # 1
      /\ frames[last.g].type = (IF last.call.op = "ArrayEnd" THEN pckTypeArray ELSE pckTypeObj)
      /\ \A i \in LastUnread : fields[i].child = 0 )
    => /\ last.err = ""
       /\ r.bufferPos = frames[last.g].term + 1
       /\ r.size = last.pre.size - 1
       /\ r.tagNextId = 0
       /\ InSync(r, frames[last.g].parent)

\* C10 (as the spec states it, for a reader that has read every field of the
\* containers it is in): pckReadEnd() returns with the whole pack consumed and
\* the stack empty.
C10_ReadEndDrains ==
    (Called({"End"}) /\ LastInSync /\ NothingUnread)
    => /\ last.err = ""
       /\ r.bufferPos = Len(r.buffer)
       /\ r.size = 0

\* C11: pckReadArrayEnd() in the outer container or in an object throws 'not in
\* array', pckReadObjEnd() in the outer container or in an array throws 'not in
\* object', and the reader is left as it was.
C11_NotInContainer ==
    /\ ( /\ Called({"ArrayEnd"})
         /\ (last.g = 1 \/ frames[last.g].type # pckTypeArray)
         /\ LastInSync )
       => (last.err = "not in array" /\ r = last.pre)
    /\ ( /\ Called({"ObjEnd"})
         /\ (last.g = 1 \/ frames[last.g].type # pckTypeObj)
         /\ LastInSync )
       => (last.err = "not in object" /\ r = last.pre)

C11_Witness ==
    /\ Called({"ArrayEnd"})
    /\ last.g # 1
    /\ frames[last.g].type = pckTypeObj
    /\ LastUnread # {}
    /\ LastInSync
    /\ last.err = "not in array"


\* The offset after the bytes a field has of its own: the tag, the varints of
\* its id and value, and the size and bytes of a Str or Bin
FieldOwnEnd(i) ==
    IF fields[i].type \in {pckTypeStr, pckTypeBin} /\ Len(fields[i].bytes) > 0
        THEN fields[i].valOff + Len(Base128(Len(fields[i].bytes))) + Len(fields[i].bytes)
        ELSE fields[i].valOff

\* The offsets of the pack that belong to no field
TerminatorOffsets ==
    {o \in 0..Len(w.buffer) - 1 :
        ~\E i \in 1..Len(fields) : fields[i].tagOff <= o /\ o < FieldOwnEnd(i)}

\* The offset after the last field of container frame, a field that is a
\* container ending after its terminator; for an empty container the offset
\* after the tag that begins it
FrameEnd(frame) ==
    IF FieldsOf(frame) = {}
        THEN Max0({FieldOwnEnd(i) : i \in {j \in 1..Len(fields) : fields[j].child = frame}})
        ELSE LET Ended(i) == IF fields[i].child # 0 THEN frames[fields[i].child].term + 1
                             ELSE FieldOwnEnd(i)
             IN  Ended(Max0(FieldsOf(frame)))

\* The pckWriteArrayBegin() and pckWriteObjBegin() calls made
BeginCalls == {i \in 1..Len(wlog) : wlog[i].call.op \in {"ArrayBegin", "ObjBegin"}}

\* C12: when pckWriteEnd() has returned (and before the pack is read) the pack
\* holds one terminator 0x00 for the outer container and one for every container
\* begun, each right after the last field of its container, and no other byte
\* outside the fields.
C12_TerminatorCount ==
    (phase = "read" /\ last = NoCall) =>
        /\ Cardinality(TerminatorOffsets) = 1 + Cardinality(BeginCalls)
        /\ TerminatorOffsets = {frames[f].term : f \in 1..Len(frames)}
        /\ \A f \in 1..Len(frames) :
              /\ frames[f].term = FrameEnd(f)
              /\ w.buffer[frames[f].term + 1] = 0

C12_Witness ==
    /\ phase = "read"
    /\ last = NoCall
    /\ Cardinality(BeginCalls) = 1
    /\ FieldsOf(2) # {}
    /\ Cardinality(TerminatorOffsets) = 2


\* The id of the field container frame emitted last (0 = none yet)
LastEmittedId(frame) ==
    IF FieldsOf(frame) = {} THEN 0 ELSE fields[Max0(FieldsOf(frame))].id

\* C13: in every container of the writer the ids of the fields emitted ascend
\* strictly in the order of emission, and idLast of every open container is the
\* id of the field it emitted last; a write with an explicit id that is not
\* above idLast does not pass the assertion.  (The writer is looked at until the
\* first read call: read calls leave it as it is.)
C13_IdOrder ==
    last = NoCall =>
        /\ \A f \in 1..Len(frames) : \A i, j \in FieldsOf(f) :
              i < j => fields[i].id < fields[j].id
        /\ Len(w.tagStack) = Len(Path(wcur))
        /\ \A k \in 1..Len(w.tagStack) : w.tagStack[k].idLast = LastEmittedId(Path(wcur)[k])

C13_Witness ==
    /\ Len(wlog) = 2
    /\ wlog[1].null
    /\ wlog[2].call.id = 0
    /\ Len(fields) = 1
    /\ fields[1].id = 2
    /\ WTop(w).idLast = 2


\* What pckReadNext() has to answer: a field is left in the container, and
\* pckReadId() / pckReadType() give the id and type of the first one left
ReadNextAnswer ==
    /\ last.err = ""
    /\ last.flag = (LastUnread # {})
    /\ last.flag => \E j \in FieldsOf(last.g) :
                        /\ LastNext(j)
                        /\ r.tagNextId = fields[j].id
                        /\ r.tagNextType = fields[j].type

\* C14 (as the spec states it): in every state of the reader, a tag already
\* parsed or not, pckReadNext() returns TRUE iff a field is left in the
\* container, and pckReadId() and pckReadType() then give the id and the type of
\* the first field left.
C14_ReadNext ==
    (Called({"ReadNext"}) /\ LastInSync) => ReadNextAnswer


\* The offset of what was written after field i: the next field, the next
\* terminator or the end of the buffer
NextItemOff(i) ==
    LET after == {fields[j].tagOff : j \in {k \in 1..Len(fields) : k > i}}
                 \cup {frames[f].term : f \in {g \in 1..Len(frames) : frames[g].term > fields[i].tagOff}}
                 \cup {Len(w.buffer)}
    IN  CHOOSE o \in after : \A p \in after : o <= p

\* The encoding of a Str or Bin field: the type in the high nibble of the tag,
\* the value bit (bit 3) set iff size > 0, nothing after the tag for size 0 and
\* the size and the bytes for size > 0
SizedEncoding(i) ==
    LET tag == w.buffer[fields[i].tagOff + 1]
        n == Len(fields[i].bytes)
    IN  /\ tag \div 16 = fields[i].type
        /\ (tag \div 8) % 2 = (IF n > 0 THEN 1 ELSE 0)
        /\ n = 0 => NextItemOff(i) = fields[i].tagOff + 1
        /\ n > 0 => SubSeq(w.buffer, fields[i].tagOff + 2, NextItemOff(i)) = <<n>> \o fields[i].bytes

\* C15: a Str or Bin value of size 0 that is not elided is the tag alone with
\* the value bit clear, and a read of it returns the empty value, not NULL or the
\* default; a value of size n > 0 is the tag with the value bit set, the varint
\* n and the n bytes, and a read returns the bytes.  (The encoding is looked at
\* until the first read call: read calls leave the pack as it is.)
C15_SizedValue ==
    /\ last = NoCall =>
          \A i \in 1..Len(fields) : fields[i].type \in {pckTypeStr, pckTypeBin} => SizedEncoding(i)
    /\ ( /\ Called({"Str", "Bin"})
         /\ \E j \in FieldsOf(last.g) :
                LastNext(j) /\ fields[j].id = LastId0 /\ fields[j].type = TypeOf(last.call.op)
         /\ LastInSync )
       => /\ last.err = ""
          /\ \E j \in FieldsOf(last.g) : LastNext(j) /\ last.bytes = fields[j].bytes

C15_Witness ==
    /\ Called({"Str"})
    /\ LastInSync
    /\ last.err = ""
    /\ last.bytes = <<>>
    /\ last.call.dbytes # <<>>
    /\ \E j \in FieldsOf(last.g) :
          LastNext(j) /\ fields[j].id = LastId0 /\ fields[j].type = pckTypeStr /\ fields[j].bytes = <<>>


\* The ID delta of field i: its id - idLast of its container before it - 1
IdDelta(i) == fields[i].id - PrevId(fields[i].frame, fields[i].id) - 1

\* The tag byte of field i, and the bytes written after it up to the next item
TagOf(i) == w.buffer[fields[i].tagOff + 1]
AfterTag(i) == SubSeq(w.buffer, fields[i].tagOff + 2, NextItemOff(i))

\* C16 (as the spec states it): the tag of a container has the type in the high
\* nibble and the low 4 bits of the ID delta in bits 0-3; a delta of 0..15 is in
\* the tag byte alone, and a delta of 16 or more is followed by a varint with
\* the bits above bit 3.
C16_ContainerTag ==
    \A i \in 1..Len(fields) :
        fields[i].child # 0 =>
            /\ TagOf(i) \div 16 = fields[i].type
            /\ TagOf(i) % 16 = IdDelta(i) % 16
            /\ IdDelta(i) < 16 => AfterTag(i) = <<>>
            /\ IdDelta(i) >= 16 => AfterTag(i) = Base128(IdDelta(i) \div 16)


\* The varint of the ID delta bits that did not fit the tag, which holds
\* the low bits of it (a factor of bits)
IdVarint(i, bits) ==
    IF IdDelta(i) \div bits > 0 THEN Base128(IdDelta(i) \div bits) ELSE <<>>

U64Small(value) == value[1] + 128 * value[2] + 16384 * value[3]
IsU64Small(value) == \A k \in 4..PACK_UINT64_SIZE_MAX : value[k] = 0

\* C18: pckWriteUInt64Internal() writes a value as 1 to 10 bytes, every byte
\* but the last with the high bit set and the last with it clear, the low seven
\* bits of byte k being digit k of the value in base 128, lowest first;
\* pckReadUInt64Internal() on the bytes returns the value and stands after
\* them; 0x80 is written as 0x80 0x01.
C18_VarintRoundTrip ==
    (Len(wlog) = 1 /\ wlog[1].call.op = "Varint") =>
        /\ Len(w.buffer) \in 1..10
        /\ \A k \in 1..Len(w.buffer) - 1 : w.buffer[k] >= 128
        /\ w.buffer[Len(w.buffer)] < 128
        /\ \A k \in 1..PACK_UINT64_SIZE_MAX :
              wlog[1].bytes[k] = (IF k <= Len(w.buffer) THEN w.buffer[k] % 128 ELSE 0)
        /\ wlog[1].bytes = [U64Zero EXCEPT ![2] = 1] => w.buffer = <<128, 1>>
        /\ IsU64Small(wlog[1].bytes) =>
              /\ Base128(U64Small(wlog[1].bytes)) = w.buffer
              /\ pckReadUInt64Internal(pckReadNewBuf(w.buffer)).num = U64Small(wlog[1].bytes)
        /\ Called({"ReadVarint"}) =>
              /\ last.err = ""
              /\ last.bytes = wlog[1].bytes
              /\ r.bufferPos = Len(w.buffer)

C18_Witness ==
    /\ Len(wlog) = 1
    /\ wlog[1].call.op = "Varint"
    /\ Called({"ReadVarint"})
    /\ Len(w.buffer) = 10
    /\ last.bytes[10] = 1
    /\ last.bytes[1] = 127

\* The bytes of the raw input that have the high bit set, up to the first
\* without
RawHigh(buffer) ==
    {k \in 1..Len(buffer) : \A j \in 1..k : buffer[j] >= 128}

\* C19: pckReadUInt64Internal() throws 'unterminated base-128 integer' when the
\* first ten bytes all have the high bit set, and 'unexpected EOF' when the
\* input ends after fewer than ten bytes that all have the high bit set; it
\* returns a value in no other case than a byte with the high bit clear among
\* the first ten.
C19_VarintErrors ==
    (Len(wlog) = 1 /\ wlog[1].call.op = "Raw" /\ Called({"ReadVarint"})) =>
        /\ Cardinality(RawHigh(r.buffer)) >= 10 => last.err = "unterminated base-128 integer"
        /\ (Cardinality(RawHigh(r.buffer)) < 10 /\ RawHigh(r.buffer) = 1..Len(r.buffer))
              => last.err = "unexpected EOF"
        /\ last.err = "" => Cardinality(RawHigh(r.buffer)) \in 0..9 \ {Len(r.buffer)}

C19_Witness ==
    /\ Len(wlog) = 1
    /\ wlog[1].call.op = "Raw"
    /\ Called({"ReadVarint"})
    /\ Len(r.buffer) = 11
    /\ r.buffer[11] = 5
    /\ last.err = "unterminated base-128 integer"


\* The pack a writer without a sink makes of the same calls: every chunk given
\* to pckWriteBuffer(), in the order of the calls
ChunksInOrder == ApplyLog(pckWriteNewBuf, wlog).buffer

\* C20: a writer with a sink keeps the order of the stream: as long as it
\* writes, the bytes given to the sink followed by the bytes in the buffer are
\* the chunks in the order of the pckWriteBuffer() calls, the buffer holding no
\* more than its size; after pckWriteEnd() the sink has been given all of them.
C20_SinkOrder ==
    /\ Len(w.buffer) <= w.bufSize
    /\ phase = "write" => ioWrite(w.write, w.buffer) = ChunksInOrder
    /\ phase # "write" => w.write = ChunksInOrder

C20_Witness ==
    /\ phase = "write"
    /\ Len(wlog) = 2
    /\ wlog[1].call.op = "U32"
    /\ ~wlog[1].null
    /\ wlog[2].call.op = "Str"
    /\ Len(wlog[2].bytes) = MaxSinkLen
    /\ Len(w.write) = Len(ChunksInOrder)
    /\ w.buffer = <<>>


\* The last call had, on the reader with a source, the outcome b that it has on
\* the reader without one
SameAsBuffer(b) ==
    /\ ReaderView(r) = b.r
    /\ last.err = b.err
    /\ last.num = b.num
    /\ last.bytes = b.bytes
    /\ last.flag = b.flag

\* C21: a reader with a source that gives exactly the bytes asked for: no
\* ASSERT(remaining == 0) fails, after every call the buffer holds no byte that
\* is not consumed, the bytes the source has given are the bytes of the pack
\* consumed so far, and every call has the outcome it has on a reader that has
\* the whole pack in its buffer.
C21_SourceExact ==
    (phase # "write" /\ r.read # NullValue) =>
        /\ r.bufferPos = r.bufferMax
        /\ r.read = SubSeq(w.buffer, r.readTotal + 1, Len(w.buffer))
        /\ ~Called({"none"}) =>
              /\ last.err # "assert"
              /\ SameAsBuffer(ReadApplyCall(ReaderView(last.pre), last.call))

C21_Witness ==
    /\ r.read # NullValue
    /\ Called({"Str"})
    /\ last.err = ""
    /\ Len(last.bytes) = MaxSinkLen
    /\ LastSkipped # {}
    /\ \E i \in LastSkipped : Len(fields[i].bytes) = MaxSinkLen


\* The bytes the reader had left when the last call was made
LastRemaining == last.pre.bufferMax - last.pre.bufferPos

\* C22 as stated: without a source, pckReadBuffer(n) with n greater than the
\* number of bytes that remain throws 'unexpected EOF'.
C22_FillEofAlways ==
    (Called({"Buffer"}) /\ last.call.dnum > LastRemaining) => last.err = "unexpected EOF"

\* C22 amended: without a source, pckReadBuffer(n) throws 'unexpected EOF' when
\* no byte remains; when some but fewer than n remain it returns their number
\* without an error, and the loop that reads a value of n bytes consumes them
\* and throws 'unexpected EOF' on its next call; when n or more remain it
\* returns n.
C22_FillEof ==
    /\ Called({"Buffer"}) =>
          /\ LastRemaining = 0 => last.err = "unexpected EOF"
          /\ (0 < LastRemaining /\ LastRemaining < last.call.dnum) =>
                last.err = "" /\ last.num = LastRemaining /\ r.bufferPos = r.bufferMax
          /\ LastRemaining >= last.call.dnum => last.err = "" /\ last.num = last.call.dnum
    /\ Called({"Bytes"}) =>
          /\ LastRemaining < last.call.dnum =>
                last.err = "unexpected EOF" /\ r.bufferPos = r.bufferMax
          /\ LastRemaining >= last.call.dnum =>
                last.err = "" /\ Len(last.bytes) = last.call.dnum

C22_Witness ==
    /\ Called({"Buffer"})
    /\ 0 < LastRemaining
    /\ LastRemaining < last.call.dnum
    /\ last.pre.bufferPos > 0
    /\ last.err = ""


\* The last call, a typed read, consumed a field: without defaultNull it has
\* returned, with defaultNull the field it asked for was there
LastMatched ==
    /\ Called({"U32", "Str", "Bin"})
    /\ last.call.dn =>
          \E i \in Unread(last.pre, last.g) : fields[i].id = AskedId(last.pre, last.call.id)

\* C23: the lookahead is empty (tagNextId = 0) in a new reader, after a typed
\* read or container begin that matched a field and after pckReadArrayEnd /
\* pckReadObjEnd; when it is not empty the reader has parsed exactly the tag
\* of the next field not consumed, or the terminator, of its container; and a
\* lookahead that holds the terminator is left only by popping the frame.
C23_Lookahead ==
    /\ (phase = "read" /\ mir = 0 /\ last = NoCall) => r.tagNextId = 0
    /\ (LastInSync /\ last.err = "") =>
          /\ LastMatched => r.tagNextId = 0
          /\ Called({"ArrayBegin", "ObjBegin", "ArrayEnd", "ObjEnd"}) => r.tagNextId = 0
          /\ (r.tagNextId # 0 /\ ~Called({"End"})) => sync
          /\ (last.pre.tagNextId = UINT_MAX /\ r.tagNextId # UINT_MAX) => r.size < last.pre.size


\* The calls of wlog that begin and that end a container
WrittenOps(ops) == {i \in 1..Len(wlog) : wlog[i].call.op \in ops}
ContainerType(op) == IF op \in {"ArrayBegin", "ArrayEnd"} THEN pckTypeArray ELSE pckTypeObj

\* C24: before pckWriteEnd / pckReadEnd the stack of the writer and of the
\* reader has 1 + begins - ends elements (for the reader: a begin that returns
\* adds one, an end that returns removes one, no other call changes it) and at
\* least one; its first frame is the implicit object; tagStackTop is its last
\* element; a begin pushes a frame of its type with idLast = 0 and
\* nullTotal = 0; an end called on the outermost frame fails and pops nothing.
C24_ContainerStack ==
    /\ phase = "write" =>
          /\ Len(w.tagStack) = 1 + Cardinality(WrittenOps({"ArrayBegin", "ObjBegin"}))
                                 - Cardinality(WrittenOps({"ArrayEnd", "ObjEnd"}))
          /\ Len(w.tagStack) >= 1
          /\ w.tagStack[1].type = pckTypeObj
          /\ (wlog # <<>> /\ wlog[Len(wlog)].call.op \in {"ArrayBegin", "ObjBegin"}) =>
                WTop(w) = PackTagStack(ContainerType(wlog[Len(wlog)].call.op))
    /\ (phase # "write" /\ ~Called({"End", "ReadVarint", "Buffer", "Bytes"})) =>
          /\ r.size >= 1
          /\ r.size = Len(r.tagStack)
          /\ r.top = r.size
          /\ r.tagStack[1].type = pckTypeObj
          /\ ~Called({"none"}) => r.size = last.pre.size
                + (IF Called({"ArrayBegin", "ObjBegin"}) /\ last.err = "" THEN 1 ELSE 0)
                - (IF Called({"ArrayEnd", "ObjEnd"}) /\ last.err = "" THEN 1 ELSE 0)
          /\ (Called({"ArrayBegin", "ObjBegin"}) /\ last.err = "") =>
                RTop(r) = PackTagStack(ContainerType(last.call.op))
          /\ (Called({"ArrayEnd", "ObjEnd"}) /\ last.pre.size = 1) => last.err # ""

C24_Witness ==
    /\ Called({"ArrayEnd"})
    /\ last.err = ""
    /\ last.pre.size = 2
    /\ last.pre.tagStack[1].idLast = 2
    /\ r.size = 1


\* The number of write operations made so far in the container the writer is
\* in after the first i calls of wlog (a container inside it counts as one);
\* depth is the number of containers ended and not yet begun on the way back
RECURSIVE PosCount(_, _)
PosCount(i, depth) ==
    IF i = 0 THEN 0
    ELSE IF wlog[i].call.op \in {"ArrayEnd", "ObjEnd"} THEN PosCount(i - 1, depth + 1)
    ELSE IF wlog[i].call.op \in {"ArrayBegin", "ObjBegin"}
        THEN (IF depth = 0 THEN 0
              ELSE (IF depth = 1 THEN 1 ELSE 0) + PosCount(i - 1, depth - 1))
    ELSE (IF depth = 0 THEN 1 ELSE 0) + PosCount(i - 1, depth)

\* The writer before its last call
WriterBefore == ApplyLog(pckWriteNewBuf, SubSeq(wlog, 1, Len(wlog) - 1))

\* C25: with id = 0 in every write, after n write operations in a container
\* (fields emitted, fields elided and pckWriteNull calls in any mix)
\* idLast + nullTotal = n; pckWriteNull and an elided write change nothing but
\* nullTotal, which grows by one, and emit no byte; a write that emits a tag
\* sets nullTotal to 0 and idLast to n, the position of the operation.
C25_PositionalIds ==
    LET Step(pre, e) ==
            /\ e.null => w = [pre EXCEPT !.tagStack[Len(pre.tagStack)].nullTotal = @ + 1]
            /\ (~e.null /\ e.call.op \in {"U32", "Str"}) =>
                  /\ WTop(w).nullTotal = 0
                  /\ WTop(w).idLast = PosCount(Len(wlog), 0)
                  /\ Len(w.buffer) > Len(pre.buffer)
            /\ e.call.op = "ArrayBegin" =>
                  /\ w.tagStack[Len(w.tagStack) - 1].nullTotal = 0
                  /\ w.tagStack[Len(w.tagStack) - 1].idLast = PosCount(Len(wlog) - 1, 0) + 1
    IN  (phase = "write" /\ \A i \in 1..Len(wlog) : wlog[i].call.id = 0) =>
            /\ WTop(w).idLast + WTop(w).nullTotal = PosCount(Len(wlog), 0)
            /\ wlog # <<>> => Step(WriterBefore, wlog[Len(wlog)])

C25_Witness ==
    /\ phase = "write"
    /\ Len(wlog) = MaxPosOps
    /\ wlog[1].call.op = "Null"
    /\ wlog[2].null /\ wlog[2].call.op = "U32"
    /\ wlog[3].call.op = "Str" /\ ~wlog[3].null
    /\ wlog[4].null
    /\ WTop(w).idLast = 3
    /\ WTop(w).nullTotal = 1


\* The number of ID delta bits in the tag of a field, as a factor: 2 for a
\* multi-bit type with a value below 2, 4 for one with a larger value and for
\* the single-bit types, 8 for the containers
IdBits(f) ==
    IF packTypeData[f.type].valueMultiBit THEN (IF f.num < 2 THEN 2 ELSE 4)
    ELSE IF packTypeData[f.type].valueSingleBit THEN 4
    ELSE 8

\* What follows the ID delta bits after the tag: the value of a multi-bit type
\* that is 2 or more, the size and bytes of a Str / Bin that is not empty
AfterId(f) ==
    IF packTypeData[f.type].valueMultiBit THEN (IF f.num < 2 THEN <<>> ELSE Base128(f.num))
    ELSE IF f.bytes # <<>> /\ f.bytes # NullValue THEN Base128(Len(f.bytes)) \o f.bytes
    ELSE <<>>

\* C26: for a field of any tag category with ID delta d = id - idLast - 1, the
\* tag holds the low bits of d and a flag that is set iff the bits above are
\* not 0, these bits follow the tag as a varint before the varint of the value
\* or size, and pckReadNext on the reader that has consumed the fields before
\* gives id = idLast + d + 1, the id the writer gave the field.
C26_IdReconstruction ==
    /\ (phase = "read" /\ mir = 0 /\ last = NoCall) => \A i \in 1..Len(fields) :
          /\ IdDelta(i) >= 0
          /\ TagOf(i) % IdBits(fields[i]) = IdDelta(i) % IdBits(fields[i])
          /\ (TagOf(i) \div IdBits(fields[i])) % 2 = 1 <=> IdDelta(i) \div IdBits(fields[i]) > 0
          /\ AfterTag(i) = IdVarint(i, IdBits(fields[i])) \o AfterId(fields[i])
    /\ (Called({"ReadNext"}) /\ LastInSync /\ last.pre.tagNextId = 0) =>
          \A j \in FieldsOf(last.g) :
              last.pre.bufferPos = fields[j].tagOff =>
                  /\ last.err = ""
                  /\ last.flag
                  /\ r.tagNextType = fields[j].type
                  /\ r.tagNextId = fields[j].id
                  /\ r.tagNextId = RTop(last.pre).idLast + IdDelta(j) + 1

C26_Witness ==
    /\ Called({"ReadNext"})
    /\ LastInSync
    /\ RTop(last.pre).idLast = 9
    /\ \E j \in FieldsOf(last.g) :
          /\ last.pre.bufferPos = fields[j].tagOff
          /\ fields[j].type = pckTypeStr
          /\ IdDelta(j) = 1103
          /\ r.tagNextId = 1113


\* C27 (as the source header states it): a field of an integer (multi-bit) type
\* with a value from -1 to 1 has tag bit 3 (more value) clear and the low bit of
\* the stored value in tag bit 2; with a value below -1 or above 1 it has tag
\* bit 3 set.  For an I32 field the value is the signed value given to
\* pckWriteI32, for the unsigned types (Ptr, U32, U64) the value itself.
C27_SmallValues ==
    \A i \in 1..Len(fields) :
        /\ fields[i].type \in {pckTypePtr, pckTypeU32, pckTypeU64} =>
              /\ fields[i].num <= 1 =>
                    (TagOf(i) \div 8) % 2 = 0 /\ (TagOf(i) \div 4) % 2 = fields[i].num
              /\ fields[i].num > 1 => (TagOf(i) \div 8) % 2 = 1
        /\ fields[i].type = pckTypeI32 =>
              \A v \in I32Values :
                  fields[i].num = cvtInt32ToZigZag(v) =>
                      /\ (v >= -1 /\ v <= 1) =>
                            /\ (TagOf(i) \div 8) % 2 = 0
                            /\ (TagOf(i) \div 4) % 2 = fields[i].num % 2
                      /\ (v < -1 \/ v > 1) => (TagOf(i) \div 8) % 2 = 1


\* The field that call i of wlog emitted
FieldOfCall(i) == Cardinality({k \in 1..i : ~wlog[k].null /\ wlog[k].call.op \in FieldOps})

\* Call i elided a field given with an explicit id and call i + 1 wrote a field
\* with id 0
NullThenImplicit(i) ==
    /\ i < Len(wlog)
    /\ wlog[i].null
    /\ wlog[i].call.id # 0
    /\ ~wlog[i + 1].null
    /\ wlog[i + 1].call.op \in FieldOps
    /\ wlog[i + 1].call.id = 0

\* C28 (as the spec states it): when the writer elides a field given with
\* explicit id k and then writes a field with id 0, the field written gets the
\* id k + 1, and the reader that repeats the two calls gets the default from
\* the first and the written value from the second.
C28_ImplicitAfterNull ==
    \A i \in 1..Len(wlog) :
        (AscendingIds /\ NullThenImplicit(i)) =>
            /\ fields[FieldOfCall(i + 1)].id = wlog[i].call.id + 1
            /\ (mir \in {i, i + 1} /\ ~Called({"none"})) =>
                  (last.err = "" /\ ReturnedValueOf(wlog[mir]))


\* The index in the pack of the last byte of the varint that starts at index p
RECURSIVE VarintLast(_)
VarintLast(p) == IF p < Len(w.buffer) /\ w.buffer[p] >= 128 THEN VarintLast(p + 1) ELSE p

\* C29: in the pack the writer made the tag byte of every field is not 0 and
\* has a type of 1 or more in its high nibble; the varint of the ID delta, of
\* the value and of the size, where the tag says there is one, ends in a byte
\* that is not 0, and after them and the bytes of the value comes the next
\* item; the byte at the end of every container is 0.  So a 0 where a tag is
\* expected is a terminator and nothing else.
C29_ZeroIsTerminator ==
    LET TagByte(i, tag, f) ==
            LET moreId == (tag \div IdBits(f)) % 2 = 1
                hasValue == (tag \div 8) % 2 = 1 /\ f.child = 0
                IdEnd(p) == IF moreId THEN VarintLast(p) ELSE p - 1
                ValueEnd(p) == IF hasValue THEN VarintLast(p + 1) ELSE p
                Ends(idEnd, valueEnd) ==
                    /\ moreId => w.buffer[idEnd] # 0
                    /\ hasValue => w.buffer[valueEnd] # 0
                    /\ valueEnd + (IF packTypeData[f.type].size /\ hasValue THEN Len(f.bytes) ELSE 0)
                          = NextItemOff(i)
            IN  /\ tag # 0
                /\ tag \div 16 >= 1
                /\ Ends(IdEnd(f.tagOff + 2), ValueEnd(IdEnd(f.tagOff + 2)))
    IN  (phase = "read" /\ mir = 0 /\ last = NoCall) =>
            /\ \A i \in 1..Len(fields) : TagByte(i, TagOf(i), fields[i])
            /\ \A f \in 1..Len(frames) : w.buffer[frames[f].term + 1] = 0

C29_Witness ==
    /\ phase = "read" /\ mir = 0 /\ last = NoCall
    /\ Len(frames) = 2
    /\ \E i \in 1..Len(fields) :
          /\ fields[i].type = pckTypeU32
          /\ fields[i].num = 7
          /\ fields[i].frame = 2
          /\ IdDelta(i) = 1103
          /\ Len(AfterTag(i)) = 3


C31_PastTerminator ==
    (last.pre.tagNextId = UINT_MAX /\ Called({"U32", "Bin", "ReadNull", "ReadNext"})) =>
        /\ r.bufferPos = last.pre.bufferPos
        /\ r.tagNextId = UINT_MAX
        /\ (Called({"U32", "Bin"}) /\ LastId0 > RTop(last.pre).idLast) =>
              IF last.call.dn
                  THEN /\ last.err = ""
                       /\ Called({"U32"}) => last.num = last.call.dnum
                       /\ Called({"Bin"}) => last.bytes = NullValue
                  ELSE last.err = "does not exist"
        /\ (Called({"ReadNull"}) /\ LastId0 > RTop(last.pre).idLast) =>
              last.err = "" /\ last.flag
        /\ Called({"ReadNext"}) => last.err = "" /\ ~last.flag



\* A read of field j addressed by id on reader rd returns what was written:
\* the value of a U32, the bytes of a Bin, and a begin enters the container
\* with nothing of it read
ReadsField(rd, j, id) ==
    LET f == fields[j]
        Begun(b) ==
            /\ b.err = ""
            /\ b.r.size = rd.size + 1
            /\ RTop(b.r) = PackTagStack(f.type)
            /\ b.r.tagStack[rd.top].idLast = f.id
            /\ b.r.tagNextId = 0
            /\ b.r.bufferPos = f.valOff
    IN  CASE f.type = pckTypeU32 ->
               \A dn \in BOOLEAN, dv \in U32Defaults :
                   LET Got(o) == o.err = "" /\ o.num = f.num /\ RTop(o.r).idLast = f.id
                   IN  Got(pckReadU32(rd, id, dn, dv))
          [] f.type = pckTypeBin ->
               \A dn \in BOOLEAN :
                   LET Got(o) == o.err = "" /\ o.bytes = f.bytes /\ RTop(o.r).idLast = f.id
                   IN  Got(pckReadBin(rd, id, dn))
          [] OTHER -> Begun(ReadBegin(rd, f.type, id))

\* The last call was a typed read with defaultNull, of an id that no field has
\* and that is below the ids of the fields not consumed, and returned
LastDefaultAbsent ==
    /\ Called({"U32", "Bin"})
    /\ last.call.dn
    /\ last.err = ""
    /\ LastInSync
    /\ LastId0 > RTop(last.pre).idLast
    /\ \A i \in LastUnread : fields[i].id > LastId0

\* C32: a typed read with defaultNull of an absent id k sets idLast of the
\* container to k and pops or pushes nothing; a lookahead parsed before stays
\* as it was and no byte is consumed; the tag of the next field, if one is
\* left, is loaded with the value not consumed; and a read addressed to the id
\* of that field, or with id 0 when its id is k + 1, returns what was written.
C32_DefaultKeepsLookahead ==
    LastDefaultAbsent =>
        /\ RTop(r).idLast = LastId0
        /\ r.size = last.pre.size
        /\ last.pre.tagNextId # 0 =>
              /\ r.bufferPos = last.pre.bufferPos
              /\ r.tagNextId = last.pre.tagNextId
              /\ r.tagNextType = last.pre.tagNextType
              /\ r.tagNextValue = last.pre.tagNextValue
        /\ LastUnread = {} => r.tagNextId = UINT_MAX
        /\ \A j \in LastUnread :
              LastNext(j) =>
                  /\ r.tagNextId = fields[j].id
                  /\ r.tagNextType = fields[j].type
                  /\ r.bufferPos = fields[j].valOff
                  /\ ReadsField(r, j, fields[j].id)
                  /\ fields[j].id = LastId0 + 1 => ReadsField(r, j, 0)

C32_Witness ==
    /\ LastDefaultAbsent
    /\ last.pre.tagNextId # 0
    /\ last.pre.tagNextId # UINT_MAX
    /\ \E j \in LastUnread :
          /\ LastNext(j)
          /\ fields[j].id = LastId0 + 1
          /\ fields[j].type = pckTypeBin
          /\ Len(fields[j].bytes) > 0



(***************************************************************************)
(* SpecLoop: the reader on bytes no writer made, with the loops of         *)
(* pckReadTag(), pckReadStr() / pckReadBin() and pckReadEnd() taken one    *)
(* iteration at a time.  phase = "tag" inside the do ... while of          *)
(* pckReadTag(), "data" inside a loop over pckReadBuffer() (mir = the      *)
(* bytes still expected, sync = the loop is that of a skipped field).      *)
(* last holds the call under way: id = *id, peek = the mode of the         *)
(* pckReadTag() under way, before = the reader before the last iteration,  *)
(* kind = the loop that iteration was of, oob = packTypeData was read past *)
(* its end.                                                                *)
(***************************************************************************)
\* The largest number of bytes of the input of SpecLoop
MaxLoopLen == 3

\* The bytes of the input: a terminator, a field of a type with no flags, an
\* array, a Bin with data, a U32 of value 1, and a tag of type 12
LoopBytes == {0, 1, 16, 40, 164, 192}
LoopPacks ==
    UNION {[1..n -> LoopBytes] : n \in 0..MaxLoopLen}

\* What a read past the end of packTypeData can give: a fault, or an entry
\* with any flags
OobFault == [fault |-> TRUE, valueSingleBit |-> FALSE, valueMultiBit |-> FALSE, size |-> FALSE]
OobOutcomes ==
    {OobFault}
    \cup [fault : {FALSE}, valueSingleBit : BOOLEAN, valueMultiBit : BOOLEAN, size : {FALSE}]

LoopRec(call, id, peek, pre) ==
    [call |-> call, id |-> id, peek |-> peek, err |-> "", pre |-> pre,
     before |-> pre, kind |-> "none", oob |-> FALSE, num |-> 0, flag |-> FALSE]

\* The type parameter of the pckReadTag() under way
LoopType(lp) ==
    IF lp.peek THEN pckTypeUnknown
    ELSE CASE lp.call.op = "U32" -> pckTypeU32
           [] lp.call.op = "Bin" -> pckTypeBin
           [] lp.call.op = "ArrayBegin" -> pckTypeArray
           [] OTHER -> pckTypeUnknown

\* The outcome of a step: the reader, the phase and the loop state after it
LoopOut(rd, ph, size, skip, peek, err, num, flag) ==
    [r |-> rd, phase |-> ph, size |-> size, skip |-> skip, peek |-> peek, err |-> err,
     num |-> num, flag |-> flag]
LoopFail(rd, lp, err) == LoopOut(rd, "failed", 0, FALSE, lp.peek, err, 0, FALSE)
LoopDone(rd, lp, num, flag) == LoopOut(rd, "read", 0, FALSE, lp.peek, "", num, flag)
LoopAgain(rd, lp) == LoopOut(rd, "tag", 0, FALSE, lp.peek, "", 0, FALSE)

\* The size of a value is read, then its bytes are: the loop over
\* pckReadBuffer() starts unless the size is 0
LoopSized(size, lp, skip) ==
    IF size.err # "" THEN LoopFail(size.r, lp, size.err)
    ELSE IF size.num # 0 THEN LoopOut(size.r, "data", size.num, skip, lp.peek, "", 0, FALSE)
    ELSE IF skip THEN LoopAgain(ReadTagConsume(size.r), lp)
    ELSE LoopDone(size.r, lp, 0, FALSE)



\* pckReadTag() returned on reader rd: what the function that called it does next
LoopReturn(rd, lp) ==
    LET op == lp.call.op
        null == lp.id < rd.tagNextId
        removed == [rd EXCEPT !.size = @ - 1]
    IN  CASE op = "ReadNull" -> LoopDone(rd, lp, 0, null)
          [] op \in {"U32", "Bin"} /\ lp.peek ->
               \* pckReadDefaultNull(): idLast = *id if NULL, else pckReadTag() again
               IF null
                   THEN LoopOut([rd EXCEPT !.tagStack[rd.top].idLast = lp.id], "read", 0, FALSE,
                                TRUE, "", IF op = "U32" THEN lp.call.dnum ELSE 0, TRUE)
                   ELSE LoopOut(rd, "tag", 0, FALSE, FALSE, "", 0, FALSE)
          [] op = "U32" -> LoopDone(rd, lp, rd.tagNextValue, FALSE)
          [] op = "Bin" ->
               IF rd.tagNextValue # 0 THEN LoopSized(pckReadUInt64Internal(rd), lp, FALSE)
               ELSE LoopDone(rd, lp, 0, FALSE)
          [] op = "ArrayBegin" -> LoopDone(ReadPush(rd, pckTypeArray), lp, 0, FALSE)
          [] op = "ArrayEnd" -> LoopDone(ReadPop(rd), lp, 0, FALSE)
          [] op = "End" ->
               \* lstRemoveLast(), then the test of while (lstSize() > 0)
               IF removed.size > 0 THEN LoopAgain(removed, lp)
               ELSE LoopOut([removed EXCEPT !.top = 0, !.tagStack = <<>>], "done", 0, FALSE,
                            TRUE, "", 0, FALSE)

\* One iteration of the do ... while (1) of pckReadTag() with the lookahead in
\* r1; fault = the name of a type past the end of packTypeData faults
LoopCompare(r1, lp, fault) ==
    LET type == LoopType(lp)
    IN  IF lp.id < r1.tagNextId
            THEN IF ~lp.peek THEN LoopFail(r1, lp, "does not exist")
                 ELSE LoopReturn(r1, lp)
        ELSE IF lp.id = r1.tagNextId
            THEN IF lp.peek THEN LoopReturn(r1, lp)
                 ELSE IF ~ReadTagTypeOk(r1, type)
                    THEN LoopFail(r1, lp, IF r1.tagNextType > pckTypeU64 /\ fault
                                              THEN "undefined" ELSE "type")
                 ELSE LoopReturn(ReadTagConsume(r1), lp)
        ELSE IF SkipHasData(r1, type) THEN LoopSized(pckReadUInt64Internal(r1), lp, TRUE)
        ELSE LoopAgain(ReadTagConsume(r1), lp)



\* The parse of the next tag where the lookahead is empty: pckReadTagNext(),
\* and one of OobOutcomes where the tag names a type past the end of packTypeData
LoopTagNext(rd, choice) ==
    IF ~ReadTagNextOob(rd) \/ choice.fault THEN pckReadTagNext(rd)
    ELSE ReadTagNextIn(rd, [t \in 0..15 |-> IF t \in DOMAIN packTypeData THEN packTypeData[t]
                                            ELSE choice])

\* The state after a step with outcome out; kind names the loop the step was of
LoopSet(out, kind, oob) ==
    /\ r' = out.r
    /\ phase' = out.phase
    /\ mir' = out.size
    /\ sync' = out.skip
    /\ last' = [last EXCEPT !.peek = out.peek, !.err = out.err, !.num = out.num,
                            !.flag = out.flag, !.before = r, !.kind = kind,
                            !.oob = last.oob \/ oob]
    /\ UNCHANGED <<w, wlog, fields, frames, wcur, gcur>>

\* A call of a function of the reader, up to the first iteration of its loop
LoopCall(call) ==
    LET peek == call.op \in {"ReadNull", "ArrayEnd", "End"} \/ call.dn
        id == IF call.op \in {"ArrayEnd", "End"} THEN UINT_MAX - 1
              ELSE IF call.id = 0 THEN RTop(r).idLast + 1 ELSE call.id
        lp == LoopRec(call, id, peek, r)
        out == IF call.op = "ArrayEnd" /\ (r.size = 1 \/ RTop(r).type # pckTypeArray)
                   THEN LoopFail(r, lp, "not in array")
               ELSE IF ReadTagAlready(r, id) THEN LoopFail(r, lp, "already read")
               ELSE LoopAgain(r, lp)
    IN  /\ phase = "read"
        /\ last = NoCall
        /\ RTop(r).idLast <= MaxId
        /\ r' = r
        /\ phase' = out.phase
        /\ last' = [lp EXCEPT !.err = out.err]
        /\ mir' = 0
        /\ sync' = FALSE
        /\ UNCHANGED <<w, wlog, fields, frames, wcur, gcur>>

\* One iteration of the do ... while (1) of pckReadTag()
LoopTagIter(choice) ==
    LET oob == IF r.tagNextId = 0 THEN ReadTagNextOob(r) ELSE r.tagNextType > pckTypeU64
        Parsed(next) ==
            IF next.err # "" THEN LoopFail(next.r, last, next.err)
            ELSE LoopCompare(next.r, last, choice.fault)
    IN  /\ phase = "tag"
        /\ ~oob => choice = OobFault
        /\ LoopSet(IF r.tagNextId = 0 THEN Parsed(LoopTagNext(r, choice))
                   ELSE LoopCompare(r, last, choice.fault),
                   "tag", oob)

\* One iteration of a loop over pckReadBuffer(): of the field skipped in
\* pckReadTag(), or of pckReadBin()
LoopDataIter ==
    LET Read(sizeRead) ==
            IF sizeRead.err # "" THEN LoopFail(sizeRead.r, last, sizeRead.err)
            ELSE LoopSized(Value([sizeRead.r EXCEPT !.bufferPos = @ + sizeRead.num],
                                 mir - sizeRead.num), last, sync)
    IN  /\ phase = "data"
        /\ mir > 0
        /\ LoopSet(Read(pckReadBuffer(r, mir)), "data", FALSE)

\* pckReadNext(): a single call of pckReadTagNext()
LoopNext(choice) ==
    LET lp == LoopRec(Call("ReadNext", 0, FALSE, 0, <<>>), 0, TRUE, r)
        oob == ReadTagNextOob(r)
        Parsed(next) ==
            IF next.err # "" THEN LoopFail(next.r, lp, next.err)
            ELSE LoopDone(next.r, lp, 0, next.flag)
        out == Parsed(LoopTagNext(r, choice))
    IN  /\ phase = "read"
        /\ last = NoCall
        /\ ~oob => choice = OobFault
        /\ r' = out.r
        /\ phase' = out.phase
        /\ last' = [lp EXCEPT !.err = out.err, !.flag = out.flag, !.oob = oob]
        /\ mir' = 0
        /\ sync' = FALSE
        /\ UNCHANGED <<w, wlog, fields, frames, wcur, gcur>>

LoopCalls ==
    {Call(op, id, dn, 7, <<>>) : op \in {"U32", "Bin"}, id \in Ids, dn \in BOOLEAN}
    \cup {Call(op, id, FALSE, 0, <<>>) : op \in {"ReadNull", "ArrayBegin"}, id \in Ids}
    \cup {Call(op, 0, FALSE, 0, <<>>) : op \in {"ArrayEnd", "End"}}

NextLoop ==
    \/ \E buffer \in LoopPacks : VarintRaw(buffer)
    \/ \E call \in LoopCalls : LoopCall(call)
    \/ \E choice \in OobOutcomes : LoopTagIter(choice)
    \/ LoopDataIter
    \/ \E choice \in OobOutcomes : LoopNext(choice)
    \/ TakeResult

SpecLoop == Init /\ [][NextLoop]_vars



\* The errors pack.c throws as FormatError
FormatErrors ==
    {"unexpected EOF", "unterminated base-128 integer", "does not exist", "already read",
     "type", "not in array", "not in object"}

\* C33: on any input of the buffer-mode reader every iteration of the loop of
\* pckReadTag() that starts with no tag parsed, and every iteration of a loop
\* over pckReadBuffer() (the bytes of a skipped field, of pckReadBin()),
\* consumes at least one byte or throws "unexpected EOF", and a call that does
\* not return a value ends in a format error.
C33_ReaderTerminates ==
    last # NoCall =>
        /\ (last.kind = "tag" /\ last.before.tagNextId = 0) =>
              r.bufferPos > last.before.bufferPos \/ last.err = "unexpected EOF"
        /\ last.kind = "data" =>
              r.bufferPos > last.before.bufferPos \/ last.err = "unexpected EOF"
        /\ phase = "failed" => last.err \in FormatErrors

=============================================================================
